---------------------------- MODULE Spec2Model ----------------------------
(***************************************************************************)
(* Model of the RRG-Controller C API: the gas flow regulator driver        *)
(* (rrg.c) and the relay driver (relay.c), both layered on a MODBUS-RTU    *)
(* transport (libmodbus).  The transport is an external collaborator: each *)
(* of its primitives has a nondeterministic return code, and it keeps a    *)
(* table of holding registers that a successful write updates and a        *)
(* successful read returns.                                                *)
(***************************************************************************)
EXTENDS Integers, Sequences, FiniteSets, TLC

(***************************************************************************)
(* Program constants.                                                      *)
(***************************************************************************)
MODBUS_ERR == -1

RRG_OK == 0
RRG_ERR == -1
ERROR_RRG_FAILED_CONNECT == -1001
ERROR_RRG_FAILED_CREATE_CONTEXT == -1002
ERROR_RRG_FAILED_SET_SLAVE == -1003
ERROR_RRG_FAILED_SET_TIMEOUT == -1004
ERROR_RRG_FAILED_READ_REGISTER == -1005
ERROR_RRG_FAILED_WRITE_REGISTER == -1006
ERROR_RRG_INVALID_PARAMETER == -1007

RELAY_OK == 0
RELAY_ERR == -1
ERROR_RELAY_FAILED_CONNECT == -6001
ERROR_RELAY_FAILED_CREATE_CONTEXT == -6002
ERROR_RELAY_FAILED_SET_SLAVE == -6003
ERROR_RELAY_FAILED_SET_TIMEOUT == -6004
ERROR_RELAY_FAILED_WRITE_REGISTER == -6005
ERROR_RELAY_INVALID_PARAMETER == -6006

MODBUS_REGISTER_SETPOINT == 2053
MODBUS_REGISTER_FLOW == 2103
MODBUS_REGISTER_GAS == 2100
MODBUS_REGISTER_TURN_ON_OFF == 512

\* The null pointer; contexts (sessions) are numbered from 1.
NULL == 0

(***************************************************************************)
(* Bounds of the model.                                                    *)
(***************************************************************************)
\* Number of transport sessions modbus_new_rtu can hand out in one run.
MaxSessions == 2
\* Number of sampled mantissas per binade in the codec specification.
MaxMantIdx == 4
\* Number of (pointer, name) pairs passed to _check_ptrs after the first.
MaxPairs == 4

(***************************************************************************)
(* Binary floating point.  A C float is modelled exactly as a dyadic       *)
(* rational m * 2^e with |m| <= 2^24; arithmetic on it rounds to a 24-bit  *)
(* significand, round-to-nearest-even, as IEEE-754 single precision does.  *)
(***************************************************************************)
RECURSIVE Pow2(_)
Pow2(n) == IF n <= 0 THEN 1 ELSE 2 * Pow2(n - 1)

RECURSIVE BitLen(_)
BitLen(n) == IF n <= 0 THEN 0 ELSE 1 + BitLen(n \div 2)

Abs(x) == IF x < 0 THEN -x ELSE x

Sgn(x) == IF x < 0 THEN -1 ELSE 1

Min(a, b) == IF a <= b THEN a ELSE b

MantBits == 24

\* N / 2^d rounded to an integer, ties to even (N >= 0).
RoundNearestEven(N, d) ==
    IF d <= 0 THEN N
    ELSE LET p == Pow2(d)
             q == N \div p
             r == N % p
             h == p \div 2
         IN IF r > h \/ (r = h /\ q % 2 = 1) THEN q + 1 ELSE q

\* The float nearest to N * 2^x (N >= 0).
ToFloat(N, x) ==
    LET d == IF BitLen(N) > MantBits THEN BitLen(N) - MantBits ELSE 0
    IN [m |-> RoundNearestEven(N, d), e |-> x + d]

\* setpoint * 1000 : the int 1000 is converted to float and the product is
\* a single-precision product (1000 = 125 * 2^3).
FloatMul1000(s) ==
    LET f == ToFloat(Abs(s.m) * 125, s.e + 3)
    IN [m |-> Sgn(s.m) * f.m, e |-> f.e]

\* (int) f rounding to the nearest integer instead of truncating.
FloatToInt_RoundsToNearest(f) ==
    IF f.e >= 0 THEN f.m * Pow2(f.e)
    ELSE IF -f.e >= 31 THEN 0
    ELSE Sgn(f.m) * ((Abs(f.m) + Pow2(-f.e - 1)) \div Pow2(-f.e))

\* (int) f : conversion to int truncates toward zero.
FloatToInt(f) ==
    IF f.e >= 0 THEN f.m * Pow2(f.e)
    ELSE IF -f.e >= 31 THEN 0
    ELSE Sgn(f.m) * (Abs(f.m) \div Pow2(-f.e))

\* Long division V / 1000 carried to 25 significant bits: q accumulates the
\* quotient bits, r is the running remainder, x the exponent of q's unit.
RECURSIVE QuotBits(_, _, _)
QuotBits(q, r, x) ==
    IF q >= Pow2(MantBits) THEN [q |-> q, r |-> r, x |-> x]
    ELSE QuotBits(2 * q + (IF 2 * r >= 1000 THEN 1 ELSE 0), (2 * r) % 1000, x - 1)

\* V / 1000.0 stored into a float: the quotient rounded to 24 bits.
IntDiv1000ToFloat(V) ==
    IF V = 0 THEN [m |-> 0, e |-> 0]
    ELSE LET a == Abs(V)
             b == QuotBits(a \div 1000, a % 1000, 0)
             m0 == b.q \div 2
             up == (b.q % 2 = 1) /\ (b.r > 0 \/ m0 % 2 = 1)
         IN [m |-> Sgn(V) * (IF up THEN m0 + 1 ELSE m0), e |-> b.x + 1]

\* |f - s| <= 0.001 for two floats, decided exactly in integers.
Within001(f, s) ==
    LET fe == IF f.m = 0 THEN s.e ELSE f.e
        se == IF s.m = 0 THEN fe ELSE s.e
        x == Min(fe, se)
        D == Abs(f.m * Pow2(fe - x) - s.m * Pow2(se - x))
    IN IF x >= -2 THEN D = 0
       ELSE IF D >= Pow2(MantBits) THEN FALSE
       ELSE IF -x - 3 >= 31 THEN TRUE
       ELSE D * 125 <= Pow2(-x - 3)

\* f = s as numbers.
FloatEq(f, s) ==
    LET fe == IF f.m = 0 THEN s.e ELSE f.e
        se == IF s.m = 0 THEN fe ELSE s.e
        x == Min(fe, se)
    IN f.m * Pow2(fe - x) = s.m * Pow2(se - x)

(***************************************************************************)
(* The flow codec of RRG_SetFlow and RRG_GetFlow.                          *)
(***************************************************************************)
\* int value = (int)(setpoint * 1000)
SetpointToValue(setpoint) == FloatToInt(FloatMul1000(setpoint))

\* reg_high = value >> 16 (arithmetic shift of an int)
RegHigh(value) == value \div 65536

\* reg_low = value & 0xFFFF
RegLow(value) == value % 65536

\* An int argument passed as the uint16_t parameter of modbus_write_register.
ToUint16(v) == v % 65536

\* The two words joined without the sign: the top bit of the high word is
\* dropped instead of becoming the sign of the int.
Reassemble_DropsSign(d0, d1) == (d0 % 32768) * 65536 + d1

\* (data[0] << 16) | data[1] on two uint16_t words promoted to int; a high
\* word >= 0x8000 wraps into the sign bit.
Reassemble(d0, d1) ==
    IF d0 >= 32768 THEN (d0 - 65536) * 65536 + d1 ELSE d0 * 65536 + d1

\* *flow = ((data[0] << 16) | data[1]) / 1000.0
DecodeFlow(d0, d1) == IntDiv1000ToFloat(Reassemble(d0, d1))


(***************************************************************************)
(* State.                                                                  *)
(***************************************************************************)
VARIABLES
    RRG_GlobalError,    \* rrg.c: int RRG_GlobalError
    RELAY_GlobalError,  \* relay.c: int RELAY_GlobalError
    rrgHandle,          \* RRG_Handle objects: handle -> modbus_ctx
    relayHandle,        \* Relay_Handle objects: handle -> modbus_ctx
    ctxState,           \* transport: life-cycle state of every session
    rrgRegs,            \* transport: holding registers of the flow regulator
    relayRegs,          \* transport: holding registers of the relay
    flow,               \* the caller's float that RRG_GetFlow stores into
    last,               \* the most recent API call: arguments, result, transport
                        \* calls, and the messages GetLastError returned after it
    prev,               \* the call before it, kept when that was RRG_SetFlow or
                        \* RELAY_TurnOn (the calls whose successor is specified)
    codec,              \* the codec specification's registers
    thread,             \* the threads of a multi-threaded caller: what each is
                        \* doing and what its calls returned
    check,              \* a call of _check_ptrs: its arguments and its result
    driver              \* the driver(s) the calling program is linked against

vars == <<RRG_GlobalError, RELAY_GlobalError, rrgHandle, relayHandle, ctxState,
          rrgRegs, relayRegs, flow, last, prev, codec, thread, check, driver>>

apiVars == <<RRG_GlobalError, RELAY_GlobalError, rrgHandle, relayHandle, ctxState,
             rrgRegs, relayRegs, flow, last, prev, thread, check, driver>>

\* The handle objects the caller owns, per driver.
Handles == {1}
Sessions == 1 .. MaxSessions

\* Return codes a libmodbus primitive can produce: -1 on error, else success.
TransportRc == {MODBUS_ERR, 0}

\* Register addresses of the two devices.
RrgAddrs == {MODBUS_REGISTER_SETPOINT, MODBUS_REGISTER_SETPOINT + 1,
             MODBUS_REGISTER_GAS, MODBUS_REGISTER_FLOW, MODBUS_REGISTER_FLOW + 1}
RelayAddrs == {MODBUS_REGISTER_TURN_ON_OFF}

ZeroFloat == [m |-> 0, e |-> 0]

\* Setpoints the caller passes to RRG_SetFlow: 70.0 SCCM.
Setpoints == {[m |-> 70, e |-> 0]}

\* Setpoint words the device holds at registers 2053/2054 when the program
\* starts: 1.5 SCCM.
StartSetpoint == <<0, 1500>>

\* Gas id the device holds at register 2100 when the program starts: 7.
StartGas == 7

\* Gas ids the caller passes to RRG_SetGas: 7 (Helium in the live test) and
\* 255, an id the live test never uses.
GasIds == {7, 255}

\* Measured-flow words the device holds at registers 2103/2104: 66.0 SCCM
\* (66000 = 1 * 65536 + 464).
FlowReading == <<1, 464>>

(***************************************************************************)
(* The transport (libmodbus).  A call is recorded with its arguments and   *)
(* its return code; the effect of a sequence of calls on the sessions and  *)
(* on the registers is the fold of the effects of the calls.               *)
(***************************************************************************)
Call(fn, ctx, addr, val, rc) == [fn |-> fn, ctx |-> ctx, addr |-> addr, val |-> val, rc |-> rc]

\* modbus_new_rtu returns NULL or a session not handed out before.
NewRtuResults ==
    {NULL} \cup (IF \E c \in Sessions : ctxState[c] = "unalloc"
                 THEN {CHOOSE c \in Sessions :
                          /\ ctxState[c] = "unalloc"
                          /\ \A d \in Sessions : ctxState[d] = "unalloc" => c <= d}
                 ELSE {})

\* Effect of one transport call on the sessions.  A session that was released
\* and is passed to the transport again (a dangling modbus_t pointer) is
\* marked "misused": the transport's behaviour on it is undefined.
CtxStep(st, c) ==
    IF c.ctx = NULL THEN st
    ELSE IF st[c.ctx] \in {"freed", "misused"} THEN [st EXCEPT ![c.ctx] = "misused"]
    ELSE IF c.fn = "modbus_new_rtu" THEN [st EXCEPT ![c.ctx] = "created"]
    ELSE IF c.fn = "modbus_connect" /\ c.rc >= 0 THEN [st EXCEPT ![c.ctx] = "connected"]
    ELSE IF c.fn = "modbus_close" THEN [st EXCEPT ![c.ctx] = "closed"]
    ELSE IF c.fn = "modbus_free" THEN [st EXCEPT ![c.ctx] = "freed"]
    ELSE st

RECURSIVE CtxFold(_, _)
CtxFold(st, calls) ==
    IF calls = <<>> THEN st ELSE CtxFold(CtxStep(st, Head(calls)), Tail(calls))

\* Effect of one transport call on a device's registers: an acknowledged
\* single-register write stores the word at its address.
RegStep(regs, c) ==
    IF c.fn = "modbus_write_register" /\ c.rc >= 0 /\ c.addr \in DOMAIN regs
    THEN [regs EXCEPT ![c.addr] = c.val]
    ELSE regs

RECURSIVE RegFold(_, _)
RegFold(regs, calls) ==
    IF calls = <<>> THEN regs ELSE RegFold(RegStep(regs, Head(calls)), Tail(calls))

\* The words a successful modbus_read_registers(ctx, addr, n, data) delivers.
ReadRegisters(regs, addr, n) == [i \in 1 .. n |-> regs[addr + i - 1]]

(***************************************************************************)
(* Bookkeeping of API calls.                                               *)
(***************************************************************************)
NoArgs == [config |-> NULL, handle |-> NULL, ptr |-> NULL, setpoint |-> ZeroFloat, gas |-> 0]

NoMsg == [rrg |-> "", relay |-> ""]

Record(op, args, ret, calls) ==
    [op |-> op, args |-> args, ret |-> ret, calls |-> calls, msg |-> NoMsg]

\* The call returns: it becomes the most recent call.
Returns(op, args, ret, calls) ==
    /\ last' = Record(op, args, ret, calls)
    /\ prev' = IF last.op \in {"RRG_SetFlow", "RELAY_TurnOn"} /\ last.msg = NoMsg
               THEN last
               ELSE Record("none", NoArgs, 0, <<>>)


\* What a driver function does in one call: its return value, the value it
\* leaves in the driver's last-error variable, the transport calls it makes
\* in order, and the value it stores through its output pointer (if any).
Outcome(ret, err, calls, out) == [ret |-> ret, err |-> err, calls |-> calls, out |-> out]

\* The configurations the caller passes: the live test's parameters.
\* The RRG_Config / Relay_Config objects the caller may pass, by address.
\* Object 1 is the configuration of the live test (slave 1, 50 ms); the
\* others differ in timeout: 1500 ms, the default 10 ms, 0 ms, the largest
\* timeout whose product with 1000 fits an int, and one whose product does
\* not.
Configs == <<[slave_id |-> 1, timeout |-> 50],
             [slave_id |-> 1, timeout |-> 1500],
             [slave_id |-> 1, timeout |-> 10],
             [slave_id |-> 1, timeout |-> 0],
             [slave_id |-> 1, timeout |-> 2147483],
             [slave_id |-> 1, timeout |-> 4294968]>>
ConfigPtrs == {NULL} \cup DOMAIN Configs
Config == Configs[1]

\* config->timeout * 1000, the microseconds argument of the response timeout:
\* a product of two ints, kept to 32 bits (two's complement), computed here
\* on 16-bit halves.
TimeoutUsec(timeout) ==
    LET lo == (timeout % 65536) * 1000
        hi == (timeout \div 65536) * 1000 + lo \div 65536
        h == hi % 65536
        l == lo % 65536
    IN IF h >= 32768 THEN (h - 65536) * 65536 + l ELSE h * 65536 + l

\* Outcomes of the four transport steps of an Init call; the return code of
\* a step that is not reached is immaterial and is fixed to 0.
InitTransportOf(rcs) ==
    {t \in [ctx : NewRtuResults, slave : rcs, timeout : rcs, connect : rcs] :
        /\ t.ctx = NULL => t.slave = 0
        /\ t.slave = MODBUS_ERR => t.timeout = 0
        /\ t.timeout = MODBUS_ERR => t.connect = 0}

InitTransport == InitTransportOf(TransportRc)

\* The transport is reached only once both arguments have passed the pointer
\* checks of RRG_Init and RELAY_Init: before that no outcome is drawn.
NoTransport == [ctx |-> NULL, slave |-> 0, timeout |-> 0, connect |-> 0]

InitTransportFor(config, handle, rcs) ==
    IF config = NULL \/ handle = NULL THEN {NoTransport} ELSE InitTransportOf(rcs)

\* Outcomes of the two writes of RRG_SetFlow, likewise.
SetFlowTransportOf(rcs) == {w \in rcs \X rcs : w[1] = MODBUS_ERR => w[2] = 0}

SetFlowTransport == SetFlowTransportOf(TransportRc)

\* A register operation reaches the transport only with a handle, a session
\* and (for a read) an output location: before that no outcome is drawn.
RcFor(ctx, ptr, rcs) == IF ctx = NULL \/ ptr = NULL THEN {0} ELSE rcs

SetFlowTransportFor(ctx, rcs) ==
    IF ctx = NULL THEN {<<0, 0>>} ELSE SetFlowTransportOf(rcs)

(***************************************************************************)
(* The flow regulator driver (rrg.c).                                      *)
(***************************************************************************)
\* RRG_Init with the release forgotten on the set-timeout failure path.
RRG_Init_LeakOnTimeout(config, handle, t) ==
    LET new == Call("modbus_new_rtu", t.ctx, 0, 0, IF t.ctx = NULL THEN MODBUS_ERR ELSE 0)
        slave == Call("modbus_set_slave", t.ctx, 0, Config.slave_id, t.slave)
        timeout == Call("modbus_set_response_timeout", t.ctx, 0,
                        TimeoutUsec(Config.timeout), t.timeout)
        connect == Call("modbus_connect", t.ctx, 0, 0, t.connect)
        free == Call("modbus_free", t.ctx, 0, 0, 0)
    IN IF config = NULL
       THEN Outcome(RRG_ERR, ERROR_RRG_INVALID_PARAMETER, <<>>, NULL)
       ELSE IF handle = NULL
       THEN Outcome(RRG_ERR, ERROR_RRG_INVALID_PARAMETER, <<>>, NULL)
       ELSE IF t.ctx = NULL
       THEN Outcome(RRG_ERR, ERROR_RRG_FAILED_CREATE_CONTEXT, <<new>>, NULL)
       ELSE IF t.slave = MODBUS_ERR
       THEN Outcome(RRG_ERR, ERROR_RRG_FAILED_SET_SLAVE, <<new, slave, free>>, NULL)
       ELSE IF t.timeout = MODBUS_ERR
       THEN Outcome(RRG_ERR, ERROR_RRG_FAILED_SET_TIMEOUT, <<new, slave, timeout>>, NULL)
       ELSE IF t.connect = MODBUS_ERR
       THEN Outcome(RRG_ERR, ERROR_RRG_FAILED_CONNECT,
                    <<new, slave, timeout, connect, free>>, NULL)
       ELSE Outcome(RRG_OK, RRG_OK, <<new, slave, timeout, connect>>, t.ctx)

\* RRG_Init with the response timeout set before the slave address.
RRG_Init_TimeoutBeforeSlave(config, handle, t) ==
    LET new == Call("modbus_new_rtu", t.ctx, 0, 0, IF t.ctx = NULL THEN MODBUS_ERR ELSE 0)
        slave == Call("modbus_set_slave", t.ctx, 0, Config.slave_id, t.slave)
        timeout == Call("modbus_set_response_timeout", t.ctx, 0,
                        TimeoutUsec(Config.timeout), t.timeout)
        connect == Call("modbus_connect", t.ctx, 0, 0, t.connect)
        free == Call("modbus_free", t.ctx, 0, 0, 0)
    IN IF config = NULL
       THEN Outcome(RRG_ERR, ERROR_RRG_INVALID_PARAMETER, <<>>, NULL)
       ELSE IF handle = NULL
       THEN Outcome(RRG_ERR, ERROR_RRG_INVALID_PARAMETER, <<>>, NULL)
       ELSE IF t.ctx = NULL
       THEN Outcome(RRG_ERR, ERROR_RRG_FAILED_CREATE_CONTEXT, <<new>>, NULL)
       ELSE IF t.timeout = MODBUS_ERR
       THEN Outcome(RRG_ERR, ERROR_RRG_FAILED_SET_TIMEOUT, <<new, timeout, free>>, NULL)
       ELSE IF t.slave = MODBUS_ERR
       THEN Outcome(RRG_ERR, ERROR_RRG_FAILED_SET_SLAVE, <<new, timeout, slave, free>>, NULL)
       ELSE IF t.connect = MODBUS_ERR
       THEN Outcome(RRG_ERR, ERROR_RRG_FAILED_CONNECT,
                    <<new, timeout, slave, connect, free>>, NULL)
       ELSE Outcome(RRG_OK, RRG_OK, <<new, timeout, slave, connect>>, t.ctx)

\* RRG_Init storing the session in the handle before it connects, so that a
\* failed connect leaves the released session in the handle.
RRG_Init_StoresBeforeConnect(config, handle, t) ==
    LET new == Call("modbus_new_rtu", t.ctx, 0, 0, IF t.ctx = NULL THEN MODBUS_ERR ELSE 0)
        slave == Call("modbus_set_slave", t.ctx, 0, Config.slave_id, t.slave)
        timeout == Call("modbus_set_response_timeout", t.ctx, 0,
                        TimeoutUsec(Config.timeout), t.timeout)
        connect == Call("modbus_connect", t.ctx, 0, 0, t.connect)
        free == Call("modbus_free", t.ctx, 0, 0, 0)
    IN IF config = NULL
       THEN Outcome(RRG_ERR, ERROR_RRG_INVALID_PARAMETER, <<>>, NULL)
       ELSE IF handle = NULL
       THEN Outcome(RRG_ERR, ERROR_RRG_INVALID_PARAMETER, <<>>, NULL)
       ELSE IF t.ctx = NULL
       THEN Outcome(RRG_ERR, ERROR_RRG_FAILED_CREATE_CONTEXT, <<new>>, NULL)
       ELSE IF t.slave = MODBUS_ERR
       THEN Outcome(RRG_ERR, ERROR_RRG_FAILED_SET_SLAVE, <<new, slave, free>>, NULL)
       ELSE IF t.timeout = MODBUS_ERR
       THEN Outcome(RRG_ERR, ERROR_RRG_FAILED_SET_TIMEOUT, <<new, slave, timeout, free>>, NULL)
       ELSE IF t.connect = MODBUS_ERR
       THEN Outcome(RRG_ERR, ERROR_RRG_FAILED_CONNECT,
                    <<new, slave, timeout, connect, free>>, t.ctx)
       ELSE Outcome(RRG_OK, RRG_OK, <<new, slave, timeout, connect>>, t.ctx)

\* RRG_Init carrying whole seconds of the timeout into the seconds argument.
RRG_Init_CarriesSeconds(config, handle, t) ==
    LET new == Call("modbus_new_rtu", t.ctx, 0, 0, IF t.ctx = NULL THEN MODBUS_ERR ELSE 0)
        slave == Call("modbus_set_slave", t.ctx, 0, Configs[config].slave_id, t.slave)
        timeout == Call("modbus_set_response_timeout", t.ctx,
                        Configs[config].timeout \div 1000,
                        (Configs[config].timeout % 1000) * 1000, t.timeout)
        connect == Call("modbus_connect", t.ctx, 0, 0, t.connect)
        free == Call("modbus_free", t.ctx, 0, 0, 0)
    IN IF config = NULL
       THEN Outcome(RRG_ERR, ERROR_RRG_INVALID_PARAMETER, <<>>, NULL)
       ELSE IF handle = NULL
       THEN Outcome(RRG_ERR, ERROR_RRG_INVALID_PARAMETER, <<>>, NULL)
       ELSE IF t.ctx = NULL
       THEN Outcome(RRG_ERR, ERROR_RRG_FAILED_CREATE_CONTEXT, <<new>>, NULL)
       ELSE IF t.slave = MODBUS_ERR
       THEN Outcome(RRG_ERR, ERROR_RRG_FAILED_SET_SLAVE, <<new, slave, free>>, NULL)
       ELSE IF t.timeout = MODBUS_ERR
       THEN Outcome(RRG_ERR, ERROR_RRG_FAILED_SET_TIMEOUT, <<new, slave, timeout, free>>, NULL)
       ELSE IF t.connect = MODBUS_ERR
       THEN Outcome(RRG_ERR, ERROR_RRG_FAILED_CONNECT,
                    <<new, slave, timeout, connect, free>>, NULL)
       ELSE Outcome(RRG_OK, RRG_OK, <<new, slave, timeout, connect>>, t.ctx)

RRG_Init(config, handle, t) ==
    LET new == Call("modbus_new_rtu", t.ctx, 0, 0, IF t.ctx = NULL THEN MODBUS_ERR ELSE 0)
        slave == Call("modbus_set_slave", t.ctx, 0, Configs[config].slave_id, t.slave)
        timeout == Call("modbus_set_response_timeout", t.ctx, 0,
                        TimeoutUsec(Configs[config].timeout), t.timeout)
        connect == Call("modbus_connect", t.ctx, 0, 0, t.connect)
        free == Call("modbus_free", t.ctx, 0, 0, 0)
    IN IF config = NULL
       THEN Outcome(RRG_ERR, ERROR_RRG_INVALID_PARAMETER, <<>>, NULL)
       ELSE IF handle = NULL
       THEN Outcome(RRG_ERR, ERROR_RRG_INVALID_PARAMETER, <<>>, NULL)
       ELSE IF t.ctx = NULL
       THEN Outcome(RRG_ERR, ERROR_RRG_FAILED_CREATE_CONTEXT, <<new>>, NULL)
       ELSE IF t.slave = MODBUS_ERR
       THEN Outcome(RRG_ERR, ERROR_RRG_FAILED_SET_SLAVE, <<new, slave, free>>, NULL)
       ELSE IF t.timeout = MODBUS_ERR
       THEN Outcome(RRG_ERR, ERROR_RRG_FAILED_SET_TIMEOUT, <<new, slave, timeout, free>>, NULL)
       ELSE IF t.connect = MODBUS_ERR
       THEN Outcome(RRG_ERR, ERROR_RRG_FAILED_CONNECT,
                    <<new, slave, timeout, connect, free>>, NULL)
       ELSE Outcome(RRG_OK, RRG_OK, <<new, slave, timeout, connect>>, t.ctx)

\* RRG_SetFlow with the result of the first write left unchecked.
RRG_SetFlow_IgnoresFirstFailure(handle, ctx, setpoint, w1, w2) ==
    LET value == SetpointToValue(setpoint)
        reg_high == RegHigh(value)
        reg_low == RegLow(value)
        high == Call("modbus_write_register", ctx, MODBUS_REGISTER_SETPOINT,
                     ToUint16(reg_high), w1)
        low == Call("modbus_write_register", ctx, MODBUS_REGISTER_SETPOINT + 1,
                    ToUint16(reg_low), w2)
    IN IF handle = NULL
       THEN Outcome(RRG_ERR, ERROR_RRG_INVALID_PARAMETER, <<>>, NULL)
       ELSE IF ctx = NULL
       THEN Outcome(RRG_ERR, ERROR_RRG_INVALID_PARAMETER, <<>>, NULL)
       ELSE IF w2 = MODBUS_ERR
       THEN Outcome(RRG_ERR, ERROR_RRG_FAILED_WRITE_REGISTER, <<high, low>>, NULL)
       ELSE Outcome(RRG_OK, RRG_OK, <<high, low>>, NULL)

\* RRG_SetFlow returning the specific error code of a failed write instead of
\* the generic error value.
RRG_SetFlow_ReturnsCode(handle, ctx, setpoint, w1, w2) ==
    LET value == SetpointToValue(setpoint)
        reg_high == RegHigh(value)
        reg_low == RegLow(value)
        high == Call("modbus_write_register", ctx, MODBUS_REGISTER_SETPOINT,
                     ToUint16(reg_high), w1)
        low == Call("modbus_write_register", ctx, MODBUS_REGISTER_SETPOINT + 1,
                    ToUint16(reg_low), w2)
    IN IF handle = NULL
       THEN Outcome(RRG_ERR, ERROR_RRG_INVALID_PARAMETER, <<>>, NULL)
       ELSE IF ctx = NULL
       THEN Outcome(RRG_ERR, ERROR_RRG_INVALID_PARAMETER, <<>>, NULL)
       ELSE IF w1 = MODBUS_ERR
       THEN Outcome(RRG_ERR, ERROR_RRG_FAILED_WRITE_REGISTER, <<high>>, NULL)
       ELSE IF w2 = MODBUS_ERR
       THEN Outcome(ERROR_RRG_FAILED_WRITE_REGISTER, ERROR_RRG_FAILED_WRITE_REGISTER,
                    <<high, low>>, NULL)
       ELSE Outcome(RRG_OK, RRG_OK, <<high, low>>, NULL)

\* ctx is handle->modbus_ctx (NULL when handle itself is NULL); w1 and w2 are
\* the return codes of the two writes.
RRG_SetFlow(handle, ctx, setpoint, w1, w2) ==
    LET value == SetpointToValue(setpoint)
        reg_high == RegHigh(value)
        reg_low == RegLow(value)
        high == Call("modbus_write_register", ctx, MODBUS_REGISTER_SETPOINT,
                     ToUint16(reg_high), w1)
        low == Call("modbus_write_register", ctx, MODBUS_REGISTER_SETPOINT + 1,
                    ToUint16(reg_low), w2)
    IN IF handle = NULL
       THEN Outcome(RRG_ERR, ERROR_RRG_INVALID_PARAMETER, <<>>, NULL)
       ELSE IF ctx = NULL
       THEN Outcome(RRG_ERR, ERROR_RRG_INVALID_PARAMETER, <<>>, NULL)
       ELSE IF w1 = MODBUS_ERR
       THEN Outcome(RRG_ERR, ERROR_RRG_FAILED_WRITE_REGISTER, <<high>>, NULL)
       ELSE IF w2 = MODBUS_ERR
       THEN Outcome(RRG_ERR, ERROR_RRG_FAILED_WRITE_REGISTER, <<high, low>>, NULL)
       ELSE Outcome(RRG_OK, RRG_OK, <<high, low>>, NULL)

\* RRG_GetFlow taking the first word read for the low word.
RRG_GetFlow_LowWordFirst(handle, ctx, flowPtr, rd, regs) ==
    LET read == Call("modbus_read_registers", ctx, MODBUS_REGISTER_FLOW, 2, rd)
        data == ReadRegisters(regs, MODBUS_REGISTER_FLOW, 2)
        keep == [set |-> FALSE, val |-> ZeroFloat]
    IN IF handle = NULL
       THEN Outcome(RRG_ERR, ERROR_RRG_INVALID_PARAMETER, <<>>, keep)
       ELSE IF ctx = NULL
       THEN Outcome(RRG_ERR, ERROR_RRG_INVALID_PARAMETER, <<>>, keep)
       ELSE IF flowPtr = NULL
       THEN Outcome(RRG_ERR, ERROR_RRG_INVALID_PARAMETER, <<>>, keep)
       ELSE IF rd = MODBUS_ERR
       THEN Outcome(RRG_ERR, ERROR_RRG_FAILED_READ_REGISTER, <<read>>, keep)
       ELSE Outcome(RRG_OK, RRG_OK, <<read>>,
                    [set |-> TRUE, val |-> DecodeFlow(data[2], data[1])])

\* RRG_GetFlow taking every negative return of the read as a failure.
RRG_GetFlow_NegativeReadFails(handle, ctx, flowPtr, rd, regs) ==
    LET read == Call("modbus_read_registers", ctx, MODBUS_REGISTER_FLOW, 2, rd)
        data == ReadRegisters(regs, MODBUS_REGISTER_FLOW, 2)
        keep == [set |-> FALSE, val |-> ZeroFloat]
    IN IF handle = NULL
       THEN Outcome(RRG_ERR, ERROR_RRG_INVALID_PARAMETER, <<>>, keep)
       ELSE IF ctx = NULL
       THEN Outcome(RRG_ERR, ERROR_RRG_INVALID_PARAMETER, <<>>, keep)
       ELSE IF flowPtr = NULL
       THEN Outcome(RRG_ERR, ERROR_RRG_INVALID_PARAMETER, <<>>, keep)
       ELSE IF rd < 0
       THEN Outcome(RRG_ERR, ERROR_RRG_FAILED_READ_REGISTER, <<read>>, keep)
       ELSE Outcome(RRG_OK, RRG_OK, <<read>>,
                    [set |-> TRUE, val |-> DecodeFlow(data[1], data[2])])

\* RRG_GetFlow reading the setpoint registers instead of the flow registers.
RRG_GetFlow_ReadsSetpoint(handle, ctx, flowPtr, rd, regs) ==
    LET read == Call("modbus_read_registers", ctx, MODBUS_REGISTER_SETPOINT, 2, rd)
        data == ReadRegisters(regs, MODBUS_REGISTER_SETPOINT, 2)
        keep == [set |-> FALSE, val |-> ZeroFloat]
    IN IF handle = NULL
       THEN Outcome(RRG_ERR, ERROR_RRG_INVALID_PARAMETER, <<>>, keep)
       ELSE IF ctx = NULL
       THEN Outcome(RRG_ERR, ERROR_RRG_INVALID_PARAMETER, <<>>, keep)
       ELSE IF flowPtr = NULL
       THEN Outcome(RRG_ERR, ERROR_RRG_INVALID_PARAMETER, <<>>, keep)
       ELSE IF rd = MODBUS_ERR
       THEN Outcome(RRG_ERR, ERROR_RRG_FAILED_READ_REGISTER, <<read>>, keep)
       ELSE Outcome(RRG_OK, RRG_OK, <<read>>,
                    [set |-> TRUE, val |-> DecodeFlow(data[1], data[2])])

\* RRG_GetFlow leaving the generic error value, not a code of the set, in the
\* last-error variable when the read fails.
RRG_GetFlow_SetsGenericError(handle, ctx, flowPtr, rd, regs) ==
    LET read == Call("modbus_read_registers", ctx, MODBUS_REGISTER_FLOW, 2, rd)
        data == ReadRegisters(regs, MODBUS_REGISTER_FLOW, 2)
        keep == [set |-> FALSE, val |-> ZeroFloat]
    IN IF handle = NULL
       THEN Outcome(RRG_ERR, ERROR_RRG_INVALID_PARAMETER, <<>>, keep)
       ELSE IF ctx = NULL
       THEN Outcome(RRG_ERR, ERROR_RRG_INVALID_PARAMETER, <<>>, keep)
       ELSE IF flowPtr = NULL
       THEN Outcome(RRG_ERR, ERROR_RRG_INVALID_PARAMETER, <<>>, keep)
       ELSE IF rd = MODBUS_ERR
       THEN Outcome(RRG_ERR, RRG_ERR, <<read>>, keep)
       ELSE Outcome(RRG_OK, RRG_OK, <<read>>,
                    [set |-> TRUE, val |-> DecodeFlow(data[1], data[2])])

\* RRG_GetFlow storing the converted buffer before it looks at the result of
\* the read, so that a failed read overwrites the caller's float.
RRG_GetFlow_StoresOnFailure(handle, ctx, flowPtr, rd, regs) ==
    LET read == Call("modbus_read_registers", ctx, MODBUS_REGISTER_FLOW, 2, rd)
        data == ReadRegisters(regs, MODBUS_REGISTER_FLOW, 2)
        keep == [set |-> FALSE, val |-> ZeroFloat]
    IN IF handle = NULL
       THEN Outcome(RRG_ERR, ERROR_RRG_INVALID_PARAMETER, <<>>, keep)
       ELSE IF ctx = NULL
       THEN Outcome(RRG_ERR, ERROR_RRG_INVALID_PARAMETER, <<>>, keep)
       ELSE IF flowPtr = NULL
       THEN Outcome(RRG_ERR, ERROR_RRG_INVALID_PARAMETER, <<>>, keep)
       ELSE IF rd = MODBUS_ERR
       THEN Outcome(RRG_ERR, ERROR_RRG_FAILED_READ_REGISTER, <<read>>,
                    [set |-> TRUE, val |-> ZeroFloat])
       ELSE Outcome(RRG_OK, RRG_OK, <<read>>,
                    [set |-> TRUE, val |-> DecodeFlow(data[1], data[2])])

\* regs are the device's registers and rd the return code of the read;
\* the outcome's out field says whether *flow is assigned, and with what.
RRG_GetFlow(handle, ctx, flowPtr, rd, regs) ==
    LET read == Call("modbus_read_registers", ctx, MODBUS_REGISTER_FLOW, 2, rd)
        data == ReadRegisters(regs, MODBUS_REGISTER_FLOW, 2)
        keep == [set |-> FALSE, val |-> ZeroFloat]
    IN IF handle = NULL
       THEN Outcome(RRG_ERR, ERROR_RRG_INVALID_PARAMETER, <<>>, keep)
       ELSE IF ctx = NULL
       THEN Outcome(RRG_ERR, ERROR_RRG_INVALID_PARAMETER, <<>>, keep)
       ELSE IF flowPtr = NULL
       THEN Outcome(RRG_ERR, ERROR_RRG_INVALID_PARAMETER, <<>>, keep)
       ELSE IF rd = MODBUS_ERR
       THEN Outcome(RRG_ERR, ERROR_RRG_FAILED_READ_REGISTER, <<read>>, keep)
       ELSE Outcome(RRG_OK, RRG_OK, <<read>>,
                    [set |-> TRUE, val |-> DecodeFlow(data[1], data[2])])

\* RRG_SetGas accepting only the gas id 7 and rejecting every other id.
RRG_SetGas_ValidatesId(handle, ctx, gas_id, w) ==
    LET write == Call("modbus_write_register", ctx, MODBUS_REGISTER_GAS, ToUint16(gas_id), w)
    IN IF handle = NULL
       THEN Outcome(RRG_ERR, ERROR_RRG_INVALID_PARAMETER, <<>>, NULL)
       ELSE IF ctx = NULL
       THEN Outcome(RRG_ERR, ERROR_RRG_INVALID_PARAMETER, <<>>, NULL)
       ELSE IF gas_id # 7
       THEN Outcome(RRG_ERR, ERROR_RRG_INVALID_PARAMETER, <<>>, NULL)
       ELSE IF w = MODBUS_ERR
       THEN Outcome(RRG_ERR, ERROR_RRG_FAILED_WRITE_REGISTER, <<write>>, NULL)
       ELSE Outcome(RRG_OK, RRG_OK, <<write>>, NULL)

\* RRG_SetGas with _setGlobalError forgotten on the write failure path.
RRG_SetGas_NoSetError(handle, ctx, gas_id, w) ==
    LET write == Call("modbus_write_register", ctx, MODBUS_REGISTER_GAS, ToUint16(gas_id), w)
    IN IF handle = NULL
       THEN Outcome(RRG_ERR, ERROR_RRG_INVALID_PARAMETER, <<>>, NULL)
       ELSE IF ctx = NULL
       THEN Outcome(RRG_ERR, ERROR_RRG_INVALID_PARAMETER, <<>>, NULL)
       ELSE IF w = MODBUS_ERR
       THEN Outcome(RRG_ERR, RRG_GlobalError, <<write>>, NULL)
       ELSE Outcome(RRG_OK, RRG_OK, <<write>>, NULL)

RRG_SetGas(handle, ctx, gas_id, w) ==
    LET write == Call("modbus_write_register", ctx, MODBUS_REGISTER_GAS, ToUint16(gas_id), w)
    IN IF handle = NULL
       THEN Outcome(RRG_ERR, ERROR_RRG_INVALID_PARAMETER, <<>>, NULL)
       ELSE IF ctx = NULL
       THEN Outcome(RRG_ERR, ERROR_RRG_INVALID_PARAMETER, <<>>, NULL)
       ELSE IF w = MODBUS_ERR
       THEN Outcome(RRG_ERR, ERROR_RRG_FAILED_WRITE_REGISTER, <<write>>, NULL)
       ELSE Outcome(RRG_OK, RRG_OK, <<write>>, NULL)

\* RRG_Close with the check of the handle's session left out.
RRG_Close_NoSessionCheck(handle, ctx) ==
    IF handle # NULL
    THEN <<Call("modbus_close", ctx, 0, 0, 0), Call("modbus_free", ctx, 0, 0, 0)>>
    ELSE <<>>

\* The transport calls of RRG_Close; it returns nothing and assigns nothing.
RRG_Close(handle, ctx) ==
    IF handle # NULL /\ ctx # NULL
    THEN <<Call("modbus_close", ctx, 0, 0, 0), Call("modbus_free", ctx, 0, 0, 0)>>
    ELSE <<>>

\* RRG_GetLastError with the case of the read failure missing.
RRG_GetLastError_NoReadCase(code) ==
    CASE code = RRG_OK -> "No error."
      [] code = ERROR_RRG_FAILED_CONNECT -> "Error: Connection to the MODBUS device failed."
      [] code = ERROR_RRG_FAILED_CREATE_CONTEXT -> "Error: Failed to create a MODBUS-RTU context."
      [] code = ERROR_RRG_FAILED_SET_SLAVE -> "Error: Failed to set MODBUS slave ID."
      [] code = ERROR_RRG_FAILED_SET_TIMEOUT -> "Error: Failed to set MODBUS response timeout."
      [] code = ERROR_RRG_FAILED_WRITE_REGISTER -> "Error: Failed to write a MODBUS register."
      [] code = ERROR_RRG_INVALID_PARAMETER -> "Error: Invalid parameter provided to function."
      [] OTHER -> "Unknown error occurred."

RRG_GetLastError(code) ==
    CASE code = RRG_OK -> "No error."
      [] code = ERROR_RRG_FAILED_CONNECT -> "Error: Connection to the MODBUS device failed."
      [] code = ERROR_RRG_FAILED_CREATE_CONTEXT -> "Error: Failed to create a MODBUS-RTU context."
      [] code = ERROR_RRG_FAILED_SET_SLAVE -> "Error: Failed to set MODBUS slave ID."
      [] code = ERROR_RRG_FAILED_SET_TIMEOUT -> "Error: Failed to set MODBUS response timeout."
      [] code = ERROR_RRG_FAILED_READ_REGISTER -> "Error: Failed to read a MODBUS register."
      [] code = ERROR_RRG_FAILED_WRITE_REGISTER -> "Error: Failed to write a MODBUS register."
      [] code = ERROR_RRG_INVALID_PARAMETER -> "Error: Invalid parameter provided to function."
      [] OTHER -> "Unknown error occurred."

(***************************************************************************)
(* The relay driver (relay.c).                                             *)
(***************************************************************************)
\* RELAY_Init with the handle validated only after the session was created.
RELAY_Init_LateHandleCheck(config, handle, t) ==
    LET new == Call("modbus_new_rtu", t.ctx, 0, 0, IF t.ctx = NULL THEN MODBUS_ERR ELSE 0)
        slave == Call("modbus_set_slave", t.ctx, 0, Config.slave_id, t.slave)
        timeout == Call("modbus_set_response_timeout", t.ctx, 0,
                        TimeoutUsec(Config.timeout), t.timeout)
        connect == Call("modbus_connect", t.ctx, 0, 0, t.connect)
        free == Call("modbus_free", t.ctx, 0, 0, 0)
    IN IF config = NULL
       THEN Outcome(RELAY_ERR, ERROR_RELAY_INVALID_PARAMETER, <<>>, NULL)
       ELSE IF t.ctx = NULL
       THEN Outcome(RELAY_ERR, ERROR_RELAY_FAILED_CREATE_CONTEXT, <<new>>, NULL)
       ELSE IF handle = NULL
       THEN Outcome(RELAY_ERR, ERROR_RELAY_INVALID_PARAMETER, <<new, free>>, NULL)
       ELSE IF t.slave = MODBUS_ERR
       THEN Outcome(RELAY_ERR, ERROR_RELAY_FAILED_SET_SLAVE, <<new, slave, free>>, NULL)
       ELSE IF t.timeout = MODBUS_ERR
       THEN Outcome(RELAY_ERR, ERROR_RELAY_FAILED_SET_TIMEOUT,
                    <<new, slave, timeout, free>>, NULL)
       ELSE IF t.connect = MODBUS_ERR
       THEN Outcome(RELAY_ERR, ERROR_RELAY_FAILED_CONNECT,
                    <<new, slave, timeout, connect, free>>, NULL)
       ELSE Outcome(RELAY_OK, RELAY_OK, <<new, slave, timeout, connect>>, t.ctx)

\* RELAY_Init with _resetGlobalError forgotten on the success path.
RELAY_Init_NoReset(config, handle, t) ==
    LET new == Call("modbus_new_rtu", t.ctx, 0, 0, IF t.ctx = NULL THEN MODBUS_ERR ELSE 0)
        slave == Call("modbus_set_slave", t.ctx, 0, Config.slave_id, t.slave)
        timeout == Call("modbus_set_response_timeout", t.ctx, 0,
                        TimeoutUsec(Config.timeout), t.timeout)
        connect == Call("modbus_connect", t.ctx, 0, 0, t.connect)
        free == Call("modbus_free", t.ctx, 0, 0, 0)
    IN IF config = NULL
       THEN Outcome(RELAY_ERR, ERROR_RELAY_INVALID_PARAMETER, <<>>, NULL)
       ELSE IF handle = NULL
       THEN Outcome(RELAY_ERR, ERROR_RELAY_INVALID_PARAMETER, <<>>, NULL)
       ELSE IF t.ctx = NULL
       THEN Outcome(RELAY_ERR, ERROR_RELAY_FAILED_CREATE_CONTEXT, <<new>>, NULL)
       ELSE IF t.slave = MODBUS_ERR
       THEN Outcome(RELAY_ERR, ERROR_RELAY_FAILED_SET_SLAVE, <<new, slave, free>>, NULL)
       ELSE IF t.timeout = MODBUS_ERR
       THEN Outcome(RELAY_ERR, ERROR_RELAY_FAILED_SET_TIMEOUT,
                    <<new, slave, timeout, free>>, NULL)
       ELSE IF t.connect = MODBUS_ERR
       THEN Outcome(RELAY_ERR, ERROR_RELAY_FAILED_CONNECT,
                    <<new, slave, timeout, connect, free>>, NULL)
       ELSE Outcome(RELAY_OK, RELAY_GlobalError, <<new, slave, timeout, connect>>, t.ctx)

RELAY_Init(config, handle, t) ==
    LET new == Call("modbus_new_rtu", t.ctx, 0, 0, IF t.ctx = NULL THEN MODBUS_ERR ELSE 0)
        slave == Call("modbus_set_slave", t.ctx, 0, Configs[config].slave_id, t.slave)
        timeout == Call("modbus_set_response_timeout", t.ctx, 0,
                        TimeoutUsec(Configs[config].timeout), t.timeout)
        connect == Call("modbus_connect", t.ctx, 0, 0, t.connect)
        free == Call("modbus_free", t.ctx, 0, 0, 0)
    IN IF config = NULL
       THEN Outcome(RELAY_ERR, ERROR_RELAY_INVALID_PARAMETER, <<>>, NULL)
       ELSE IF handle = NULL
       THEN Outcome(RELAY_ERR, ERROR_RELAY_INVALID_PARAMETER, <<>>, NULL)
       ELSE IF t.ctx = NULL
       THEN Outcome(RELAY_ERR, ERROR_RELAY_FAILED_CREATE_CONTEXT, <<new>>, NULL)
       ELSE IF t.slave = MODBUS_ERR
       THEN Outcome(RELAY_ERR, ERROR_RELAY_FAILED_SET_SLAVE, <<new, slave, free>>, NULL)
       ELSE IF t.timeout = MODBUS_ERR
       THEN Outcome(RELAY_ERR, ERROR_RELAY_FAILED_SET_TIMEOUT,
                    <<new, slave, timeout, free>>, NULL)
       ELSE IF t.connect = MODBUS_ERR
       THEN Outcome(RELAY_ERR, ERROR_RELAY_FAILED_CONNECT,
                    <<new, slave, timeout, connect, free>>, NULL)
       ELSE Outcome(RELAY_OK, RELAY_OK, <<new, slave, timeout, connect>>, t.ctx)

\* RELAY_TurnOn with the check of the handle's session left out.
RELAY_TurnOn_NoSessionCheck(handle, ctx, w) ==
    LET write == Call("modbus_write_register", ctx, MODBUS_REGISTER_TURN_ON_OFF, 1, w)
    IN IF handle = NULL
       THEN Outcome(RELAY_ERR, ERROR_RELAY_INVALID_PARAMETER, <<>>, NULL)
       ELSE IF w = MODBUS_ERR
       THEN Outcome(RELAY_ERR, ERROR_RELAY_FAILED_WRITE_REGISTER, <<write>>, NULL)
       ELSE Outcome(RELAY_OK, RELAY_OK, <<write>>, NULL)

RELAY_TurnOn(handle, ctx, w) ==
    LET write == Call("modbus_write_register", ctx, MODBUS_REGISTER_TURN_ON_OFF, 1, w)
    IN IF handle = NULL
       THEN Outcome(RELAY_ERR, ERROR_RELAY_INVALID_PARAMETER, <<>>, NULL)
       ELSE IF ctx = NULL
       THEN Outcome(RELAY_ERR, ERROR_RELAY_INVALID_PARAMETER, <<>>, NULL)
       ELSE IF w = MODBUS_ERR
       THEN Outcome(RELAY_ERR, ERROR_RELAY_FAILED_WRITE_REGISTER, <<write>>, NULL)
       ELSE Outcome(RELAY_OK, RELAY_OK, <<write>>, NULL)

\* RELAY_TurnOff writing 1, as RELAY_TurnOn does.
RELAY_TurnOff_WritesOne(handle, ctx, w) ==
    LET write == Call("modbus_write_register", ctx, MODBUS_REGISTER_TURN_ON_OFF, 1, w)
    IN IF handle = NULL
       THEN Outcome(RELAY_ERR, ERROR_RELAY_INVALID_PARAMETER, <<>>, NULL)
       ELSE IF ctx = NULL
       THEN Outcome(RELAY_ERR, ERROR_RELAY_INVALID_PARAMETER, <<>>, NULL)
       ELSE IF w = MODBUS_ERR
       THEN Outcome(RELAY_ERR, ERROR_RELAY_FAILED_WRITE_REGISTER, <<write>>, NULL)
       ELSE Outcome(RELAY_OK, RELAY_OK, <<write>>, NULL)

RELAY_TurnOff(handle, ctx, w) ==
    LET write == Call("modbus_write_register", ctx, MODBUS_REGISTER_TURN_ON_OFF, 0, w)
    IN IF handle = NULL
       THEN Outcome(RELAY_ERR, ERROR_RELAY_INVALID_PARAMETER, <<>>, NULL)
       ELSE IF ctx = NULL
       THEN Outcome(RELAY_ERR, ERROR_RELAY_INVALID_PARAMETER, <<>>, NULL)
       ELSE IF w = MODBUS_ERR
       THEN Outcome(RELAY_ERR, ERROR_RELAY_FAILED_WRITE_REGISTER, <<write>>, NULL)
       ELSE Outcome(RELAY_OK, RELAY_OK, <<write>>, NULL)

RELAY_Close(handle, ctx) ==
    IF handle # NULL /\ ctx # NULL
    THEN <<Call("modbus_close", ctx, 0, 0, 0), Call("modbus_free", ctx, 0, 0, 0)>>
    ELSE <<>>

\* RELAY_GetLastError whose default case returns the "No error." message.
RELAY_GetLastError_DefaultNoError(code) ==
    CASE code = RELAY_OK -> "No error."
      [] code = ERROR_RELAY_FAILED_CONNECT -> "Error: Connection to the MODBUS device failed."
      [] code = ERROR_RELAY_FAILED_CREATE_CONTEXT -> "Error: Failed to create a MODBUS-RTU context."
      [] code = ERROR_RELAY_FAILED_SET_SLAVE -> "Error: Failed to set MODBUS slave ID."
      [] code = ERROR_RELAY_FAILED_SET_TIMEOUT -> "Error: Failed to set MODBUS response timeout."
      [] code = ERROR_RELAY_FAILED_WRITE_REGISTER -> "Error: Failed to write a MODBUS register."
      [] code = ERROR_RELAY_INVALID_PARAMETER -> "Error: Invalid parameter provided to function."
      [] OTHER -> "No error."

RELAY_GetLastError(code) ==
    CASE code = RELAY_OK -> "No error."
      [] code = ERROR_RELAY_FAILED_CONNECT -> "Error: Connection to the MODBUS device failed."
      [] code = ERROR_RELAY_FAILED_CREATE_CONTEXT -> "Error: Failed to create a MODBUS-RTU context."
      [] code = ERROR_RELAY_FAILED_SET_SLAVE -> "Error: Failed to set MODBUS slave ID."
      [] code = ERROR_RELAY_FAILED_SET_TIMEOUT -> "Error: Failed to set MODBUS response timeout."
      [] code = ERROR_RELAY_FAILED_WRITE_REGISTER -> "Error: Failed to write a MODBUS register."
      [] code = ERROR_RELAY_INVALID_PARAMETER -> "Error: Invalid parameter provided to function."
      [] OTHER -> "Unknown error occurred."


(***************************************************************************)
(* Initial state: no session exists, every handle is zeroed, both          *)
(* last-error variables hold OK, the devices hold their power-up values.   *)
(* The calling program uses one of the two drivers, as each test program   *)
(* of the repository does.                                                 *)
(***************************************************************************)
NoCall == Record("none", NoArgs, 0, <<>>)

CodecIdle == [pc |-> "idle", s |-> ZeroFloat, high |-> 0, low |-> 0, flow |-> ZeroFloat]

\* A single-threaded caller has no further threads.
NoThreads == <<>>

\* No call of _check_ptrs is under way.
CheckIdle == [pc |-> "idle", first_ptr |-> NULL, rest |-> <<>>, ret |-> 0]

\* The API state of a program that owns the handle objects hs.
ApiInitOf(hs) ==
    /\ RRG_GlobalError = RRG_OK
    /\ RELAY_GlobalError = RELAY_OK
    /\ rrgHandle = [h \in hs |-> NULL]
    /\ relayHandle = [h \in hs |-> NULL]
    /\ ctxState = [c \in Sessions |-> "unalloc"]
    /\ rrgRegs = [a \in RrgAddrs |->
                     IF a = MODBUS_REGISTER_SETPOINT THEN StartSetpoint[1]
                     ELSE IF a = MODBUS_REGISTER_SETPOINT + 1 THEN StartSetpoint[2]
                     ELSE IF a = MODBUS_REGISTER_FLOW THEN FlowReading[1]
                     ELSE IF a = MODBUS_REGISTER_FLOW + 1 THEN FlowReading[2]
                     ELSE StartGas]
    /\ relayRegs = [a \in RelayAddrs |-> 0]
    /\ flow = [m |-> -1, e |-> 0]
    /\ last = NoCall
    /\ prev = NoCall

ApiInit == ApiInitOf(Handles)

Init ==
    /\ ApiInit
    /\ driver \in {"rrg", "relay"}
    /\ codec = CodecIdle
    /\ thread = NoThreads
    /\ check = CheckIdle

\* handle->modbus_ctx, for a handle pointer that may be NULL.
CtxOf(handles, handle) == IF handle = NULL THEN NULL ELSE handles[handle]

HandlePtrs == {NULL} \cup Handles

\* The output locations the caller passes to RRG_GetFlow.
FlowPtrs == {NULL, 1}

\* Pointer arguments: null or the address of an object, or only the latter.
AnyPtr == {NULL, 1}
ValidPtr == {1}

(***************************************************************************)
(* Actions: one per function of the public API.                            *)
(***************************************************************************)
\* RRG_Init called with pointer arguments drawn from ptrs and a transport whose
\* primitives return a member of rcs.
Invoke_RRG_Init(rcs, ptrs) ==
    /\ driver \in {"rrg", "both"}
    /\ \E config \in ConfigPtrs \cap ptrs, handle \in HandlePtrs \cap ptrs :
       \E t \in InitTransportFor(config, handle, rcs) :
        \E o \in {RRG_Init(config, handle, t)} :
           /\ RRG_GlobalError' = o.err
           /\ rrgHandle' = IF o.out # NULL THEN [rrgHandle EXCEPT ![handle] = o.out]
                           ELSE rrgHandle
           /\ ctxState' = CtxFold(ctxState, o.calls)
           /\ Returns("RRG_Init", [NoArgs EXCEPT !.config = config, !.handle = handle],
                      o.ret, o.calls)
           /\ UNCHANGED <<RELAY_GlobalError, relayHandle, rrgRegs, relayRegs, flow, codec, thread, check, driver>>

Call_RRG_Init == Invoke_RRG_Init(TransportRc, AnyPtr)

\* RRG_SetFlow called with pointer arguments drawn from ptrs and a transport whose
\* primitives return a member of rcs.
Invoke_RRG_SetFlow(rcs, ptrs) ==
    /\ driver \in {"rrg", "both"}
    /\ \E handle \in HandlePtrs \cap ptrs, setpoint \in Setpoints :
       \E w \in SetFlowTransportFor(CtxOf(rrgHandle, handle), rcs) :
        \E o \in {RRG_SetFlow(handle, CtxOf(rrgHandle, handle), setpoint, w[1], w[2])} :
           /\ RRG_GlobalError' = o.err
           /\ rrgRegs' = RegFold(rrgRegs, o.calls)
           /\ ctxState' = CtxFold(ctxState, o.calls)
           /\ Returns("RRG_SetFlow", [NoArgs EXCEPT !.handle = handle, !.setpoint = setpoint],
                      o.ret, o.calls)
           /\ UNCHANGED <<RELAY_GlobalError, rrgHandle, relayHandle, relayRegs, flow, codec, thread, check, driver>>

Call_RRG_SetFlow == Invoke_RRG_SetFlow(TransportRc, AnyPtr)

\* RRG_GetFlow in a build where the two drivers share one last-error variable:
\* the call leaves its outcome in the relay's variable too.
Invoke_RRG_GetFlow_SharedLastError(rcs, ptrs) ==
    /\ driver \in {"rrg", "both"}
    /\ \E handle \in HandlePtrs \cap ptrs, flowPtr \in FlowPtrs \cap ptrs :
       \E rd \in RcFor(CtxOf(rrgHandle, handle), flowPtr, rcs) :
        \E o \in {RRG_GetFlow(handle, CtxOf(rrgHandle, handle), flowPtr, rd, rrgRegs)} :
           /\ RRG_GlobalError' = o.err
           /\ RELAY_GlobalError' = o.err
           /\ flow' = IF o.out.set THEN o.out.val ELSE flow
           /\ rrgRegs' = RegFold(rrgRegs, o.calls)
           /\ ctxState' = CtxFold(ctxState, o.calls)
           /\ Returns("RRG_GetFlow", [NoArgs EXCEPT !.handle = handle, !.ptr = flowPtr],
                      o.ret, o.calls)
           /\ UNCHANGED <<rrgHandle, relayHandle, relayRegs, codec, thread, check, driver>>

\* RRG_GetFlow called with pointer arguments drawn from ptrs and a transport whose
\* primitives return a member of rcs.
Invoke_RRG_GetFlow(rcs, ptrs) ==
    /\ driver \in {"rrg", "both"}
    /\ \E handle \in HandlePtrs \cap ptrs, flowPtr \in FlowPtrs \cap ptrs :
       \E rd \in RcFor(CtxOf(rrgHandle, handle), flowPtr, rcs) :
        \E o \in {RRG_GetFlow(handle, CtxOf(rrgHandle, handle), flowPtr, rd, rrgRegs)} :
           /\ RRG_GlobalError' = o.err
           /\ flow' = IF o.out.set THEN o.out.val ELSE flow
           /\ rrgRegs' = RegFold(rrgRegs, o.calls)
           /\ ctxState' = CtxFold(ctxState, o.calls)
           /\ Returns("RRG_GetFlow", [NoArgs EXCEPT !.handle = handle, !.ptr = flowPtr],
                      o.ret, o.calls)
           /\ UNCHANGED <<RELAY_GlobalError, rrgHandle, relayHandle, relayRegs, codec, thread, check, driver>>

Call_RRG_GetFlow == Invoke_RRG_GetFlow(TransportRc, AnyPtr)

\* RRG_SetGas called with pointer arguments drawn from ptrs and a transport whose
\* primitives return a member of rcs.
Invoke_RRG_SetGas(rcs, ptrs) ==
    /\ driver \in {"rrg", "both"}
    /\ \E handle \in HandlePtrs \cap ptrs, gas_id \in GasIds :
       \E w \in RcFor(CtxOf(rrgHandle, handle), 1, rcs) :
        \E o \in {RRG_SetGas(handle, CtxOf(rrgHandle, handle), gas_id, w)} :
           /\ RRG_GlobalError' = o.err
           /\ rrgRegs' = RegFold(rrgRegs, o.calls)
           /\ ctxState' = CtxFold(ctxState, o.calls)
           /\ Returns("RRG_SetGas", [NoArgs EXCEPT !.handle = handle, !.gas = gas_id],
                      o.ret, o.calls)
           /\ UNCHANGED <<RELAY_GlobalError, rrgHandle, relayHandle, relayRegs, flow, codec, thread, check, driver>>

Call_RRG_SetGas == Invoke_RRG_SetGas(TransportRc, AnyPtr)

Call_RRG_Close ==
    /\ driver \in {"rrg", "both"}
    /\ \E handle \in HandlePtrs :
        \E calls \in {RRG_Close(handle, CtxOf(rrgHandle, handle))} :
           /\ ctxState' = CtxFold(ctxState, calls)
           /\ Returns("RRG_Close", [NoArgs EXCEPT !.handle = handle], 0, calls)
           /\ UNCHANGED <<RRG_GlobalError, RELAY_GlobalError, rrgHandle, relayHandle,
                          rrgRegs, relayRegs, flow, codec, thread, check, driver>>

\* The message returned is noted on the record of the most recent call.
Call_RRG_GetLastError ==
    /\ driver \in {"rrg", "both"}
    /\ last' = [last EXCEPT !.msg.rrg = RRG_GetLastError(RRG_GlobalError)]
    /\ UNCHANGED <<RRG_GlobalError, RELAY_GlobalError, rrgHandle, relayHandle, ctxState,
                   rrgRegs, relayRegs, flow, prev, codec, thread, check, driver>>

\* RELAY_Init called with pointer arguments drawn from ptrs and a transport whose
\* primitives return a member of rcs.
Invoke_RELAY_Init(rcs, ptrs) ==
    /\ driver \in {"relay", "both"}
    /\ \E config \in ConfigPtrs \cap ptrs, handle \in HandlePtrs \cap ptrs :
       \E t \in InitTransportFor(config, handle, rcs) :
        \E o \in {RELAY_Init(config, handle, t)} :
           /\ RELAY_GlobalError' = o.err
           /\ relayHandle' = IF o.out # NULL THEN [relayHandle EXCEPT ![handle] = o.out]
                             ELSE relayHandle
           /\ ctxState' = CtxFold(ctxState, o.calls)
           /\ Returns("RELAY_Init", [NoArgs EXCEPT !.config = config, !.handle = handle],
                      o.ret, o.calls)
           /\ UNCHANGED <<RRG_GlobalError, rrgHandle, rrgRegs, relayRegs, flow, codec, thread, check, driver>>

Call_RELAY_Init == Invoke_RELAY_Init(TransportRc, AnyPtr)

\* RELAY_TurnOn called with pointer arguments drawn from ptrs and a transport whose
\* primitives return a member of rcs.
Invoke_RELAY_TurnOn(rcs, ptrs) ==
    /\ driver \in {"relay", "both"}
    /\ \E handle \in HandlePtrs \cap ptrs :
       \E w \in RcFor(CtxOf(relayHandle, handle), 1, rcs) :
        \E o \in {RELAY_TurnOn(handle, CtxOf(relayHandle, handle), w)} :
           /\ RELAY_GlobalError' = o.err
           /\ relayRegs' = RegFold(relayRegs, o.calls)
           /\ ctxState' = CtxFold(ctxState, o.calls)
           /\ Returns("RELAY_TurnOn", [NoArgs EXCEPT !.handle = handle], o.ret, o.calls)
           /\ UNCHANGED <<RRG_GlobalError, rrgHandle, relayHandle, rrgRegs, flow, codec, thread, check, driver>>

Call_RELAY_TurnOn == Invoke_RELAY_TurnOn(TransportRc, AnyPtr)

\* RELAY_TurnOff called with pointer arguments drawn from ptrs and a transport whose
\* primitives return a member of rcs.
Invoke_RELAY_TurnOff(rcs, ptrs) ==
    /\ driver \in {"relay", "both"}
    /\ \E handle \in HandlePtrs \cap ptrs :
       \E w \in RcFor(CtxOf(relayHandle, handle), 1, rcs) :
        \E o \in {RELAY_TurnOff(handle, CtxOf(relayHandle, handle), w)} :
           /\ RELAY_GlobalError' = o.err
           /\ relayRegs' = RegFold(relayRegs, o.calls)
           /\ ctxState' = CtxFold(ctxState, o.calls)
           /\ Returns("RELAY_TurnOff", [NoArgs EXCEPT !.handle = handle], o.ret, o.calls)
           /\ UNCHANGED <<RRG_GlobalError, rrgHandle, relayHandle, rrgRegs, flow, codec, thread, check, driver>>

Call_RELAY_TurnOff == Invoke_RELAY_TurnOff(TransportRc, AnyPtr)

\* RELAY_Close clearing the handle's session field after the release.
Call_RELAY_Close_ClearsSession ==
    /\ driver \in {"relay", "both"}
    /\ \E handle \in HandlePtrs :
        \E calls \in {RELAY_Close(handle, CtxOf(relayHandle, handle))} :
           /\ ctxState' = CtxFold(ctxState, calls)
           /\ relayHandle' = IF calls # <<>> THEN [relayHandle EXCEPT ![handle] = NULL]
                             ELSE relayHandle
           /\ Returns("RELAY_Close", [NoArgs EXCEPT !.handle = handle], 0, calls)
           /\ UNCHANGED <<RRG_GlobalError, RELAY_GlobalError, rrgHandle,
                          rrgRegs, relayRegs, flow, codec, thread, check, driver>>

Call_RELAY_Close ==
    /\ driver \in {"relay", "both"}
    /\ \E handle \in HandlePtrs :
        \E calls \in {RELAY_Close(handle, CtxOf(relayHandle, handle))} :
           /\ ctxState' = CtxFold(ctxState, calls)
           /\ Returns("RELAY_Close", [NoArgs EXCEPT !.handle = handle], 0, calls)
           /\ UNCHANGED <<RRG_GlobalError, RELAY_GlobalError, rrgHandle, relayHandle,
                          rrgRegs, relayRegs, flow, codec, thread, check, driver>>

Call_RELAY_GetLastError ==
    /\ driver \in {"relay", "both"}
    /\ last' = [last EXCEPT !.msg.relay = RELAY_GetLastError(RELAY_GlobalError)]
    /\ UNCHANGED <<RRG_GlobalError, RELAY_GlobalError, rrgHandle, relayHandle, ctxState,
                   rrgRegs, relayRegs, flow, prev, codec, thread, check, driver>>

Next ==
    \/ Call_RRG_Init
    \/ Call_RRG_SetFlow
    \/ Call_RRG_GetFlow
    \/ Call_RRG_SetGas
    \/ Call_RRG_Close
    \/ Call_RRG_GetLastError
    \/ Call_RELAY_Init
    \/ Call_RELAY_TurnOn
    \/ Call_RELAY_TurnOff
    \/ Call_RELAY_Close
    \/ Call_RELAY_GetLastError

Spec == Init /\ [][Next]_vars

(***************************************************************************)
(* The codec specification: a setpoint is drawn from a sample of floats,   *)
(* RRG_SetFlow encodes it into the two words it writes, and RRG_GetFlow    *)
(* decodes those two words.                                                *)
(***************************************************************************)
\* The least significand of a normalised float.
MantBase == Pow2(MantBits - 1)
\* Distance between two sampled significands of a binade.
MantStep == MantBase \div (MaxMantIdx + 1)
\* Exponents of the sampled binades: 2^-10 <= s < 2^21, so that the
\* milli-SCCM value s * 1000 is below 2^31.
SampledExps == (-33) .. (-3)

\* The sampled setpoints, with 70.0, 0.0 and 100000.5 SCCM among them.
CodecSetpoints ==
    {[m |-> MantBase + j * MantStep, e |-> x] : j \in 0 .. MaxMantIdx, x \in SampledExps}
        \cup Setpoints \cup {ZeroFloat, [m |-> 12800064, e |-> -7]}

CodecInit ==
    /\ ApiInit
    /\ driver \in {"rrg", "both"}
    /\ thread = NoThreads
    /\ check = CheckIdle
    /\ \E s \in CodecSetpoints : codec = [CodecIdle EXCEPT !.pc = "start", !.s = s]

CodecEncode ==
    /\ codec.pc = "start"
    /\ LET o == RRG_SetFlow(1, 1, codec.s, 0, 0)
       IN codec' = [codec EXCEPT !.pc = "encoded",
                                 !.high = o.calls[1].val,
                                 !.low = o.calls[2].val]
    /\ UNCHANGED apiVars

CodecDecode ==
    /\ codec.pc = "encoded"
    /\ LET regs == [a \in RrgAddrs |->
                       IF a = MODBUS_REGISTER_FLOW THEN codec.high
                       ELSE IF a = MODBUS_REGISTER_FLOW + 1 THEN codec.low
                       ELSE 0]
           o == RRG_GetFlow(1, 1, 1, 0, regs)
       IN codec' = [codec EXCEPT !.pc = "decoded", !.flow = o.out.val]
    /\ UNCHANGED apiVars

CodecNext == CodecEncode \/ CodecDecode

CodecSpec == CodecInit /\ [][CodecNext]_vars


(***************************************************************************)
(* The sentinel specification: the operations that between them call every *)
(* transport primitive (Open, SetFlow, GetFlow, TurnOn, TurnOff), with a   *)
(* transport whose primitives may return any value, other negative values  *)
(* than the sentinel MODBUS_ERR included.  The caller passes valid         *)
(* pointers.                                                               *)
(***************************************************************************)
\* Return codes of such a transport: a negative value that is not the
\* sentinel, the sentinel, and success.
AnyRc == {-2, MODBUS_ERR, 0}

AnyRc_RRG_Init == Invoke_RRG_Init(AnyRc, ValidPtr)
AnyRc_RRG_SetFlow == Invoke_RRG_SetFlow(AnyRc, ValidPtr)
AnyRc_RRG_GetFlow == Invoke_RRG_GetFlow(AnyRc, ValidPtr)
AnyRc_RELAY_Init == Invoke_RELAY_Init(AnyRc, ValidPtr)
AnyRc_RELAY_TurnOn == Invoke_RELAY_TurnOn(AnyRc, ValidPtr)
AnyRc_RELAY_TurnOff == Invoke_RELAY_TurnOff(AnyRc, ValidPtr)

SentinelNext ==
    \/ AnyRc_RRG_Init
    \/ AnyRc_RRG_SetFlow
    \/ AnyRc_RRG_GetFlow
    \/ AnyRc_RELAY_Init
    \/ AnyRc_RELAY_TurnOn
    \/ AnyRc_RELAY_TurnOff

SentinelSpec == Init /\ [][SentinelNext]_vars

(***************************************************************************)
(* The thread specification: two threads of one process, each with a       *)
(* handle object of its own, call the driver with no lock around the       *)
(* calls.  A thread opens its handle, writes a register through it, and    *)
(* may ask GetLastError right after a call.  The calls of the two threads  *)
(* interleave; a call takes effect where it assigns the driver's           *)
(* last-error variable, the one object the two threads share.              *)
(***************************************************************************)
Threads == {1, 2}

\* Thread t works on handle object t.
HandleOf(t) == t

ThreadIdle == [pc |-> "idle", ret |-> 0, err |-> 0, msg |-> ""]

ThreadInit ==
    /\ ApiInitOf(Threads)
    /\ driver \in {"rrg", "relay"}
    /\ codec = CodecIdle
    /\ check = CheckIdle
    /\ thread = [t \in Threads |-> ThreadIdle]

\* Thread t's call returned ret, having assigned err to the last-error
\* variable.
ThreadReturns(t, op, ret, err, calls) ==
    /\ thread' = [thread EXCEPT ![t] = [pc |-> "returned", ret |-> ret, err |-> err,
                                        msg |-> ""]]
    /\ last' = Record(op, [NoArgs EXCEPT !.handle = HandleOf(t)], ret, calls)

Thread_RRG_Init(t) ==
    /\ driver \in {"rrg", "both"}
    /\ \E tr \in InitTransport :
        \E o \in {RRG_Init(1, HandleOf(t), tr)} :
           /\ RRG_GlobalError' = o.err
           /\ rrgHandle' = IF o.out # NULL THEN [rrgHandle EXCEPT ![HandleOf(t)] = o.out]
                           ELSE rrgHandle
           /\ ctxState' = CtxFold(ctxState, o.calls)
           /\ ThreadReturns(t, "RRG_Init", o.ret, o.err, o.calls)
           /\ UNCHANGED <<RELAY_GlobalError, relayHandle, rrgRegs, relayRegs, flow, prev,
                          codec, check, driver>>

Thread_RRG_SetGas(t) ==
    /\ driver \in {"rrg", "both"}
    /\ \E gas_id \in GasIds, w \in TransportRc :
        \E o \in {RRG_SetGas(HandleOf(t), rrgHandle[HandleOf(t)], gas_id, w)} :
           /\ RRG_GlobalError' = o.err
           /\ rrgRegs' = RegFold(rrgRegs, o.calls)
           /\ ctxState' = CtxFold(ctxState, o.calls)
           /\ ThreadReturns(t, "RRG_SetGas", o.ret, o.err, o.calls)
           /\ UNCHANGED <<RELAY_GlobalError, rrgHandle, relayHandle, relayRegs, flow, prev,
                          codec, check, driver>>

\* RRG_GetLastError called by thread t right after its call returned.
Thread_RRG_GetLastError(t) ==
    /\ driver \in {"rrg", "both"}
    /\ thread[t].pc = "returned"
    /\ thread' = [thread EXCEPT ![t].pc = "asked",
                                ![t].msg = RRG_GetLastError(RRG_GlobalError)]
    /\ UNCHANGED <<RRG_GlobalError, RELAY_GlobalError, rrgHandle, relayHandle, ctxState,
                   rrgRegs, relayRegs, flow, last, prev, codec, check, driver>>

Thread_RELAY_Init(t) ==
    /\ driver \in {"relay", "both"}
    /\ \E tr \in InitTransport :
        \E o \in {RELAY_Init(1, HandleOf(t), tr)} :
           /\ RELAY_GlobalError' = o.err
           /\ relayHandle' = IF o.out # NULL THEN [relayHandle EXCEPT ![HandleOf(t)] = o.out]
                             ELSE relayHandle
           /\ ctxState' = CtxFold(ctxState, o.calls)
           /\ ThreadReturns(t, "RELAY_Init", o.ret, o.err, o.calls)
           /\ UNCHANGED <<RRG_GlobalError, rrgHandle, rrgRegs, relayRegs, flow, prev,
                          codec, check, driver>>

Thread_RELAY_TurnOn(t) ==
    /\ driver \in {"relay", "both"}
    /\ \E w \in TransportRc :
        \E o \in {RELAY_TurnOn(HandleOf(t), relayHandle[HandleOf(t)], w)} :
           /\ RELAY_GlobalError' = o.err
           /\ relayRegs' = RegFold(relayRegs, o.calls)
           /\ ctxState' = CtxFold(ctxState, o.calls)
           /\ ThreadReturns(t, "RELAY_TurnOn", o.ret, o.err, o.calls)
           /\ UNCHANGED <<RRG_GlobalError, rrgHandle, relayHandle, rrgRegs, flow, prev,
                          codec, check, driver>>

\* The relay driver's GetLastError with a last-error variable per thread: it
\* reports the outcome of the calling thread's own call.
Thread_RELAY_GetLastError_PerThread(t) ==
    /\ driver \in {"relay", "both"}
    /\ thread[t].pc = "returned"
    /\ thread' = [thread EXCEPT ![t].pc = "asked",
                                ![t].msg = RELAY_GetLastError(thread[t].err)]
    /\ UNCHANGED <<RRG_GlobalError, RELAY_GlobalError, rrgHandle, relayHandle, ctxState,
                   rrgRegs, relayRegs, flow, last, prev, codec, check, driver>>

\* RELAY_GetLastError called by thread t right after its call returned.
Thread_RELAY_GetLastError(t) ==
    /\ driver \in {"relay", "both"}
    /\ thread[t].pc = "returned"
    /\ thread' = [thread EXCEPT ![t].pc = "asked",
                                ![t].msg = RELAY_GetLastError(RELAY_GlobalError)]
    /\ UNCHANGED <<RRG_GlobalError, RELAY_GlobalError, rrgHandle, relayHandle, ctxState,
                   rrgRegs, relayRegs, flow, last, prev, codec, check, driver>>

ThreadNext ==
    \E t \in Threads :
        \/ Thread_RRG_Init(t)
        \/ Thread_RRG_SetGas(t)
        \/ Thread_RRG_GetLastError(t)
        \/ Thread_RELAY_Init(t)
        \/ Thread_RELAY_TurnOn(t)
        \/ Thread_RELAY_GetLastError(t)

ThreadSpec == ThreadInit /\ [][ThreadNext]_vars

(***************************************************************************)
(* The pointer check of utils.c.  The variadic arguments of _check_ptrs    *)
(* are (pointer, name) pairs followed by a terminating NULL; rest is the   *)
(* sequence of the pointers of the pairs (a name is a string literal,      *)
(* never null, and plays no part in the result).                           *)
(***************************************************************************)
\* The while loop: args are the variadic pointers not yet read, the
\* terminating NULL last.  va_arg delivers the next one; a null one ends the
\* loop, so the test of ptr inside the loop never succeeds.
RECURSIVE CheckPtrsLoop(_)
CheckPtrsLoop(args) ==
    LET ptr == Head(args)
    IN IF ptr = NULL THEN 0
       ELSE IF ptr = NULL THEN -1
       ELSE CheckPtrsLoop(Tail(args))

_check_ptrs(first_ptr, rest) ==
    IF first_ptr = NULL THEN -1
    ELSE CheckPtrsLoop(rest \o <<NULL>>)

\* Sequences of at most n pointers, each null or valid.
RECURSIVE PtrSeqs(_)
PtrSeqs(n) ==
    IF n = 0 THEN {<<>>}
    ELSE PtrSeqs(n - 1) \cup {Append(q, p) : q \in {r \in PtrSeqs(n - 1) : Len(r) = n - 1},
                                             p \in AnyPtr}

CheckInit ==
    /\ ApiInit
    /\ driver \in {"rrg", "both"}
    /\ codec = CodecIdle
    /\ thread = NoThreads
    /\ \E first_ptr \in AnyPtr, rest \in PtrSeqs(MaxPairs) :
          check = [CheckIdle EXCEPT !.pc = "start", !.first_ptr = first_ptr, !.rest = rest]

Call_check_ptrs ==
    /\ check.pc = "start"
    /\ check' = [check EXCEPT !.pc = "done", !.ret = _check_ptrs(check.first_ptr, check.rest)]
    /\ UNCHANGED <<RRG_GlobalError, RELAY_GlobalError, rrgHandle, relayHandle, ctxState,
                   rrgRegs, relayRegs, flow, last, prev, codec, thread, driver>>

CheckNext == Call_check_ptrs

CheckSpec == CheckInit /\ [][CheckNext]_vars

(***************************************************************************)
(* The last-error specification.  The last-error variables are extern and  *)
(* the headers rrg_errors.h and relay_errors.h give every includer the     *)
(* inline function _setGlobalError, so the calling program can put any int *)
(* into them.  Here it does so, opens handles, and asks GetLastError.      *)
(***************************************************************************)
\* The codes each driver's GetLastError has a case for.
RrgCodes == {RRG_OK, ERROR_RRG_FAILED_CONNECT, ERROR_RRG_FAILED_CREATE_CONTEXT,
             ERROR_RRG_FAILED_SET_SLAVE, ERROR_RRG_FAILED_SET_TIMEOUT,
             ERROR_RRG_FAILED_READ_REGISTER, ERROR_RRG_FAILED_WRITE_REGISTER,
             ERROR_RRG_INVALID_PARAMETER}
RelayCodes == {RELAY_OK, ERROR_RELAY_FAILED_CONNECT, ERROR_RELAY_FAILED_CREATE_CONTEXT,
               ERROR_RELAY_FAILED_SET_SLAVE, ERROR_RELAY_FAILED_SET_TIMEOUT,
               ERROR_RELAY_FAILED_WRITE_REGISTER, ERROR_RELAY_INVALID_PARAMETER}

\* The ints the calling program passes to _setGlobalError: the codes of both
\* drivers, the generic error value, and neighbours of the code ranges.
ProbeCodes == RrgCodes \cup RelayCodes \cup
              {RRG_ERR, 1, ERROR_RRG_INVALID_PARAMETER - 1, ERROR_RRG_FAILED_CONNECT + 1,
               ERROR_RELAY_INVALID_PARAMETER - 1, ERROR_RELAY_FAILED_CONNECT + 1}

\* rrg_errors.h: _setGlobalError(error_code)
Call_RRG_setGlobalError ==
    /\ driver \in {"rrg", "both"}
    /\ \E error_code \in ProbeCodes :
          /\ RRG_GlobalError' = error_code
          /\ Returns("_setGlobalError", NoArgs, 0, <<>>)
    /\ UNCHANGED <<RELAY_GlobalError, rrgHandle, relayHandle, ctxState, rrgRegs, relayRegs,
                   flow, codec, thread, check, driver>>

\* relay_errors.h: _setGlobalError(error_code)
Call_RELAY_setGlobalError ==
    /\ driver \in {"relay", "both"}
    /\ \E error_code \in ProbeCodes :
          /\ RELAY_GlobalError' = error_code
          /\ Returns("_setGlobalError", NoArgs, 0, <<>>)
    /\ UNCHANGED <<RRG_GlobalError, rrgHandle, relayHandle, ctxState, rrgRegs, relayRegs,
                   flow, codec, thread, check, driver>>

LastErrorNext ==
    \/ Call_RRG_Init
    \/ Call_RRG_setGlobalError
    \/ Call_RRG_GetLastError
    \/ Call_RELAY_Init
    \/ Call_RELAY_setGlobalError
    \/ Call_RELAY_GetLastError

LastErrorSpec == Init /\ [][LastErrorNext]_vars

(***************************************************************************)
(* A program linked against both drivers (each driver used from its own    *)
(* translation unit): the flow regulator's operations and the relay's are  *)
(* called in any order in one run, with valid pointer arguments.           *)
(***************************************************************************)
LinkedInit ==
    /\ ApiInit
    /\ driver = "both"
    /\ codec = CodecIdle
    /\ thread = NoThreads
    /\ check = CheckIdle

Linked_RRG_Init == Invoke_RRG_Init(TransportRc, ValidPtr)
Linked_RRG_GetFlow == Invoke_RRG_GetFlow(TransportRc, ValidPtr)
Linked_RELAY_Init == Invoke_RELAY_Init(TransportRc, ValidPtr)
Linked_RELAY_TurnOn == Invoke_RELAY_TurnOn(TransportRc, ValidPtr)
Linked_RELAY_TurnOff == Invoke_RELAY_TurnOff(TransportRc, ValidPtr)

LinkedNext ==
    \/ Linked_RRG_Init
    \/ Linked_RRG_GetFlow
    \/ Call_RRG_GetLastError
    \/ Linked_RELAY_Init
    \/ Linked_RELAY_TurnOn
    \/ Linked_RELAY_TurnOff
    \/ Call_RELAY_GetLastError

LinkedSpec == LinkedInit /\ [][LinkedNext]_vars

(***************************************************************************)
(* Two threads calling RRG_SetFlow on one handle with no lock.  The call   *)
(* is not atomic: it is the pointer checks and the conversion, then the    *)
(* write of the high word, then the write of the low word, and the other   *)
(* thread may run between any two of them.  Each thread makes one call.    *)
(***************************************************************************)
\* The setpoints the two threads pass: 70.0 SCCM (words 1, 4464) and
\* 140.0 SCCM (words 2, 8928).
RaceSetpoints == {[m |-> 70, e |-> 0], [m |-> 140, e |-> 0]}

\* The handle both threads use.
SharedHandle == 1

RaceIdle == [pc |-> "idle", ret |-> 0, setpoint |-> ZeroFloat, reg_high |-> 0, reg_low |-> 0]

RaceInit ==
    /\ ApiInit
    /\ driver = "rrg"
    /\ codec = CodecIdle
    /\ check = CheckIdle
    /\ thread = [t \in Threads |-> RaceIdle]

\* The main thread opens the handle before the threads call SetFlow.
Race_RRG_Init ==
    /\ \A t \in Threads : thread[t].pc = "idle"
    /\ Invoke_RRG_Init(TransportRc, ValidPtr)

\* Thread t enters RRG_SetFlow: the two pointer checks, then value, reg_high
\* and reg_low are computed into its locals.
Race_SetFlow_Enter(t) ==
    /\ thread[t].pc = "idle"
    /\ \E setpoint \in RaceSetpoints :
        LET value == SetpointToValue(setpoint)
        IN IF rrgHandle[SharedHandle] = NULL
           THEN /\ RRG_GlobalError' = ERROR_RRG_INVALID_PARAMETER
                /\ thread' = [thread EXCEPT ![t] = [RaceIdle EXCEPT !.pc = "returned",
                                                    !.ret = RRG_ERR,
                                                    !.setpoint = setpoint]]
           ELSE /\ RRG_GlobalError' = RRG_GlobalError
                /\ thread' = [thread EXCEPT ![t] = [pc |-> "write_high", ret |-> 0,
                                                    setpoint |-> setpoint,
                                                    reg_high |-> RegHigh(value),
                                                    reg_low |-> RegLow(value)]]
    /\ UNCHANGED <<RELAY_GlobalError, rrgHandle, relayHandle, ctxState, rrgRegs, relayRegs,
                   flow, last, prev, codec, check, driver>>

\* RRG_SetFlow writing both words in one transport request (no second write).
Race_SetFlow_WriteHigh_WritesPair(t) ==
    /\ thread[t].pc = "write_high"
    /\ \E w \in TransportRc :
        LET high == Call("modbus_write_register", rrgHandle[SharedHandle],
                         MODBUS_REGISTER_SETPOINT, ToUint16(thread[t].reg_high), w)
            low == Call("modbus_write_register", rrgHandle[SharedHandle],
                        MODBUS_REGISTER_SETPOINT + 1, ToUint16(thread[t].reg_low), w)
        IN /\ rrgRegs' = RegFold(rrgRegs, <<high, low>>)
           /\ ctxState' = CtxStep(ctxState, high)
           /\ IF w = MODBUS_ERR
              THEN /\ RRG_GlobalError' = ERROR_RRG_FAILED_WRITE_REGISTER
                   /\ thread' = [thread EXCEPT ![t].pc = "returned", ![t].ret = RRG_ERR]
              ELSE /\ RRG_GlobalError' = RRG_GlobalError
                   /\ thread' = [thread EXCEPT ![t].pc = "write_low"]
    /\ UNCHANGED <<RELAY_GlobalError, rrgHandle, relayHandle, relayRegs,
                   flow, last, prev, codec, check, driver>>

\* Thread t's first modbus_write_register: the high word to register 2053.
Race_SetFlow_WriteHigh(t) ==
    /\ thread[t].pc = "write_high"
    /\ \E w \in TransportRc :
        LET high == Call("modbus_write_register", rrgHandle[SharedHandle],
                         MODBUS_REGISTER_SETPOINT, ToUint16(thread[t].reg_high), w)
        IN /\ rrgRegs' = RegStep(rrgRegs, high)
           /\ ctxState' = CtxStep(ctxState, high)
           /\ IF w = MODBUS_ERR
              THEN /\ RRG_GlobalError' = ERROR_RRG_FAILED_WRITE_REGISTER
                   /\ thread' = [thread EXCEPT ![t].pc = "returned", ![t].ret = RRG_ERR]
              ELSE /\ RRG_GlobalError' = RRG_GlobalError
                   /\ thread' = [thread EXCEPT ![t].pc = "write_low"]
    /\ UNCHANGED <<RELAY_GlobalError, rrgHandle, relayHandle, relayRegs,
                   flow, last, prev, codec, check, driver>>

\* Thread t's second modbus_write_register: the low word to register 2054,
\* then _resetGlobalError and return RRG_OK.
Race_SetFlow_WriteLow(t) ==
    /\ thread[t].pc = "write_low"
    /\ \E w \in TransportRc :
        LET low == Call("modbus_write_register", rrgHandle[SharedHandle],
                        MODBUS_REGISTER_SETPOINT + 1, ToUint16(thread[t].reg_low), w)
        IN /\ rrgRegs' = RegStep(rrgRegs, low)
           /\ ctxState' = CtxStep(ctxState, low)
           /\ RRG_GlobalError' = IF w = MODBUS_ERR THEN ERROR_RRG_FAILED_WRITE_REGISTER
                                 ELSE RRG_OK
           /\ thread' = [thread EXCEPT ![t].pc = "returned",
                                       ![t].ret = IF w = MODBUS_ERR THEN RRG_ERR ELSE RRG_OK]
    /\ UNCHANGED <<RELAY_GlobalError, rrgHandle, relayHandle, relayRegs,
                   flow, last, prev, codec, check, driver>>

RaceNext ==
    \/ Race_RRG_Init
    \/ \E t \in Threads :
        \/ Race_SetFlow_Enter(t)
        \/ Race_SetFlow_WriteHigh(t)
        \/ Race_SetFlow_WriteLow(t)

RaceSpec == RaceInit /\ [][RaceNext]_vars

(***************************************************************************)
(* The flow codec on signed values: RRG_SetFlow applied to setpoints of    *)
(* both signs, and RRG_GetFlow applied to the words SetFlow wrote or to a  *)
(* register pair the device holds.                                         *)
(***************************************************************************)
\* Exponents of the sampled binades: 2^-10 <= |s| < 2^21.
WordExps == {-33, -31, -29, -27, -24, -20, -16, -12, -8, -3}

\* The sampled setpoints of both signs; among them 0.005f (the float next
\* below 0.005), -0.0015f, 70.0, -70.0, -1.5 and 0.0.
WordSetpoints ==
    {[m |-> sg * (MantBase + j * MantStep), e |-> x] :
         sg \in {-1, 1}, j \in 0 .. MaxMantIdx, x \in WordExps}
        \cup {[m |-> 10737418, e |-> -31], [m |-> -12884902, e |-> -33],
              [m |-> 70, e |-> 0], [m |-> -70, e |-> 0], [m |-> -3, e |-> -1], ZeroFloat}

\* Register pairs the device may hold at 2103/2104, on both sides of the
\* sign bit of the high word.
WordPairs ==
    {<<d0, d1>> : d0 \in {0, 1, 32767, 32768, 65534, 65535},
                  d1 \in {0, 1, 464, 32768, 64536, 65535}} \ {<<32768, 0>>}

WordIdle == [pc |-> "idle", s |-> ZeroFloat, value |-> 0, high |-> 0, low |-> 0,
             flow |-> ZeroFloat]

WordInit ==
    /\ ApiInit
    /\ driver = "rrg"
    /\ thread = NoThreads
    /\ check = CheckIdle
    /\ \/ \E s \in WordSetpoints : codec = [WordIdle EXCEPT !.pc = "start", !.s = s]
       \/ \E p \in WordPairs :
             codec = [WordIdle EXCEPT !.pc = "held", !.high = p[1], !.low = p[2]]

\* RRG_SetFlow on a connected session: the value it computes and the two
\* words it hands to modbus_write_register.
WordEncode ==
    /\ codec.pc = "start"
    /\ LET o == RRG_SetFlow(1, 1, codec.s, 0, 0)
       IN codec' = [codec EXCEPT !.pc = "encoded",
                                 !.value = SetpointToValue(codec.s),
                                 !.high = o.calls[1].val,
                                 !.low = o.calls[2].val]
    /\ UNCHANGED apiVars

\* RRG_GetFlow reading the pair back from the flow registers.
WordDecode ==
    /\ codec.pc \in {"encoded", "held"}
    /\ LET regs == [a \in RrgAddrs |->
                       IF a = MODBUS_REGISTER_FLOW THEN codec.high
                       ELSE IF a = MODBUS_REGISTER_FLOW + 1 THEN codec.low
                       ELSE 0]
           o == RRG_GetFlow(1, 1, 1, 0, regs)
       IN codec' = [codec EXCEPT !.pc = IF codec.pc = "held" THEN "read" ELSE "decoded",
                                 !.flow = o.out.val]
    /\ UNCHANGED apiVars

WordNext == WordEncode \/ WordDecode

WordSpec == WordInit /\ [][WordNext]_vars

(***************************************************************************)
(* Open called with each of the configuration objects, on a valid handle.  *)
(***************************************************************************)
\* The non-null configuration pointers (1 is also the address of the handle).
TimeoutPtrs == DOMAIN Configs

Timeout_RRG_Init == Invoke_RRG_Init(TransportRc, TimeoutPtrs)
Timeout_RELAY_Init == Invoke_RELAY_Init(TransportRc, TimeoutPtrs)

TimeoutNext == Timeout_RRG_Init \/ Timeout_RELAY_Init

TimeoutSpec == Init /\ [][TimeoutNext]_vars

(***************************************************************************)
(* Vocabulary of the properties.                                           *)
(***************************************************************************)
RrgStatusOps == {"RRG_Init", "RRG_SetFlow", "RRG_GetFlow", "RRG_SetGas"}
RelayStatusOps == {"RELAY_Init", "RELAY_TurnOn", "RELAY_TurnOff"}
StatusOps == RrgStatusOps \cup RelayStatusOps
InitOps == {"RRG_Init", "RELAY_Init"}
CloseOps == {"RRG_Close", "RELAY_Close"}
RrgOps == RrgStatusOps \cup {"RRG_Close"}

\* The last-error variable of the driver that call r belongs to.
ErrOf(r) == IF r.op \in RrgOps THEN RRG_GlobalError ELSE RELAY_GlobalError

\* The message GetLastError of r's driver returned right after r ("" if it
\* was not called).
MsgOf(r) == IF r.op \in RrgOps THEN r.msg.rrg ELSE r.msg.relay

IsStep(c) == c.fn # "modbus_free"
IsFree(c) == c.fn = "modbus_free"
IsCreated(c) == c.fn = "modbus_new_rtu" /\ c.ctx # NULL
IsFailed(c) == c.rc = MODBUS_ERR

\* The order in which Open is to go through the transport.
OpenSteps == <<"modbus_new_rtu", "modbus_set_slave", "modbus_set_response_timeout",
               "modbus_connect">>

\* The failure of a call, told from its transport calls alone: none of them
\* was made (an argument was rejected), or one of them failed.
FailureOf(r) ==
    LET failed == SelectSeq(r.calls, IsFailed)
        fn == IF failed = <<>> THEN "none" ELSE failed[Len(failed)].fn
    IN IF r.calls = <<>> THEN "InvalidParameter"
       ELSE IF fn = "modbus_new_rtu" THEN "FailedCreateContext"
       ELSE IF fn = "modbus_set_slave" THEN "FailedSetSlave"
       ELSE IF fn = "modbus_set_response_timeout" THEN "FailedSetTimeout"
       ELSE IF fn = "modbus_connect" THEN "FailedConnect"
       ELSE IF fn = "modbus_read_registers" THEN "FailedReadRegister"
       ELSE IF fn = "modbus_write_register" THEN "FailedWriteRegister"
       ELSE "none"

\* The error code of a failure, per driver.
CodeOf(r, failure) ==
    IF r.op \in RrgOps
    THEN CASE failure = "InvalidParameter" -> ERROR_RRG_INVALID_PARAMETER
           [] failure = "FailedCreateContext" -> ERROR_RRG_FAILED_CREATE_CONTEXT
           [] failure = "FailedSetSlave" -> ERROR_RRG_FAILED_SET_SLAVE
           [] failure = "FailedSetTimeout" -> ERROR_RRG_FAILED_SET_TIMEOUT
           [] failure = "FailedConnect" -> ERROR_RRG_FAILED_CONNECT
           [] failure = "FailedReadRegister" -> ERROR_RRG_FAILED_READ_REGISTER
           [] failure = "FailedWriteRegister" -> ERROR_RRG_FAILED_WRITE_REGISTER
           [] OTHER -> 1
    ELSE CASE failure = "InvalidParameter" -> ERROR_RELAY_INVALID_PARAMETER
           [] failure = "FailedCreateContext" -> ERROR_RELAY_FAILED_CREATE_CONTEXT
           [] failure = "FailedSetSlave" -> ERROR_RELAY_FAILED_SET_SLAVE
           [] failure = "FailedSetTimeout" -> ERROR_RELAY_FAILED_SET_TIMEOUT
           [] failure = "FailedConnect" -> ERROR_RELAY_FAILED_CONNECT
           [] failure = "FailedWriteRegister" -> ERROR_RELAY_FAILED_WRITE_REGISTER
           [] OTHER -> 1

\* The fixed message of a failure.
MessageOf(failure) ==
    CASE failure = "InvalidParameter" -> "Error: Invalid parameter provided to function."
      [] failure = "FailedCreateContext" -> "Error: Failed to create a MODBUS-RTU context."
      [] failure = "FailedSetSlave" -> "Error: Failed to set MODBUS slave ID."
      [] failure = "FailedSetTimeout" -> "Error: Failed to set MODBUS response timeout."
      [] failure = "FailedConnect" -> "Error: Connection to the MODBUS device failed."
      [] failure = "FailedReadRegister" -> "Error: Failed to read a MODBUS register."
      [] failure = "FailedWriteRegister" -> "Error: Failed to write a MODBUS register."
      [] OTHER -> "no such failure"

\* The outcome code the last-error variable is to hold after call r.
OutcomeCode(r) == IF r.ret = 0 THEN 0 ELSE CodeOf(r, FailureOf(r))

(***************************************************************************)
(* C1.  Whenever Open (RRG_Init, RELAY_Init) fails after the transport     *)
(* session was created, that session is released exactly once before Open *)
(* returns: the sessions created by a failed call and the sessions freed   *)
(* by it are the same, one for one.                                        *)
(***************************************************************************)
C1_FailedOpenReleasesSession ==
    (last.op \in InitOps /\ last.ret # 0) =>
        LET created == SelectSeq(last.calls, IsCreated)
            freed == SelectSeq(last.calls, IsFree)
        IN /\ Len(created) = Len(freed)
           /\ \A i \in 1 .. Len(freed) : freed[i].ctx = created[i].ctx
           /\ \A i \in 1 .. Len(created) : ctxState[created[i].ctx] = "freed"

\* Open failed at the set-timeout step, after set-slave succeeded.
C1_Witness ==
    /\ last.op = "RRG_Init"
    /\ last.ret = RRG_ERR
    /\ Len(last.calls) = 4
    /\ last.calls[1].ctx # NULL
    /\ last.calls[2].rc = 0
    /\ last.calls[3].fn = "modbus_set_response_timeout"
    /\ last.calls[3].rc = MODBUS_ERR
    /\ last.calls[4].fn = "modbus_free"

(***************************************************************************)
(* C2.  Open called with a null config or a null output handle fails with  *)
(* InvalidParameter (error return, last-error = invalid parameter) and     *)
(* makes no transport call at all.                                         *)
(***************************************************************************)
C2_NullOpenTouchesNoTransport ==
    (last.op \in InitOps /\ (last.args.config = NULL \/ last.args.handle = NULL)) =>
        /\ last.ret = -1
        /\ ErrOf(last) = CodeOf(last, "InvalidParameter")
        /\ last.calls = <<>>

\* RELAY_Init was called with a config and a null handle.
C2_Witness ==
    /\ last.op = "RELAY_Init"
    /\ last.args.config # NULL
    /\ last.args.handle = NULL
    /\ RELAY_GlobalError = ERROR_RELAY_INVALID_PARAMETER


(***************************************************************************)
(* C3.  Open goes through the transport in the fixed order create session, *)
(* set slave, set response timeout, connect.  The first step that fails    *)
(* ends Open with that step's error code in last-error and no later step   *)
(* is attempted; connect is attempted only after the three earlier steps   *)
(* succeeded.                                                              *)
(***************************************************************************)
C3_OpenStepOrder ==
    (last.op \in InitOps /\ last.args.config # NULL /\ last.args.handle # NULL) =>
        LET steps == SelectSeq(last.calls, IsStep)
            n == Len(steps)
        IN /\ n \in 1 .. 4
           /\ \A i \in 1 .. n : steps[i].fn = OpenSteps[i]
           /\ \A i \in 1 .. (n - 1) : ~IsFailed(steps[i])
           /\ \A i \in 1 .. n : last.calls[i] = steps[i]
           /\ IF IsFailed(steps[n])
              THEN /\ last.ret = -1
                   /\ ErrOf(last) = CodeOf(last, FailureOf(last))
                   /\ FailureOf(last) =
                         <<"FailedCreateContext", "FailedSetSlave",
                           "FailedSetTimeout", "FailedConnect">>[n]
              ELSE n = 4 /\ last.ret = 0

\* Open failed at connect, the fourth step, after three successful steps.
C3_Witness ==
    /\ last.op = "RELAY_Init"
    /\ last.ret = RELAY_ERR
    /\ Len(last.calls) = 5
    /\ last.calls[4].fn = "modbus_connect"
    /\ last.calls[4].rc = MODBUS_ERR
    /\ last.calls[3].rc = 0
    /\ RELAY_GlobalError = ERROR_RELAY_FAILED_CONNECT

(***************************************************************************)
(* C4.  When all four transport steps of Open succeed, Open returns OK,    *)
(* the handle's session field refers to the newly created and connected    *)
(* session, that session has not been released, and last-error is "no      *)
(* error" whatever it was before the call.                                 *)
(***************************************************************************)
C4_SuccessfulOpen ==
    (/\ last.op \in InitOps
     /\ Len(SelectSeq(last.calls, IsStep)) = 4
     /\ \A i \in 1 .. Len(last.calls) : ~IsFailed(last.calls[i])) =>
        LET ctx == last.calls[1].ctx
            handles == IF last.op = "RRG_Init" THEN rrgHandle ELSE relayHandle
        IN /\ last.ret = 0
           /\ ctx # NULL
           /\ handles[last.args.handle] = ctx
           /\ ctxState[ctx] = "connected"
           /\ SelectSeq(last.calls, IsFree) = <<>>
           /\ ErrOf(last) = 0
           /\ MsgOf(last) \in {"", "No error."}

\* RRG_Init succeeded and GetLastError was asked right after it.
C4_Witness ==
    /\ last.op = "RRG_Init"
    /\ last.ret = RRG_OK
    /\ Len(last.calls) = 4
    /\ rrgHandle[1] = last.calls[4].ctx
    /\ ctxState[rrgHandle[1]] = "connected"
    /\ last.msg.rrg = "No error."

(***************************************************************************)
(* C5.  For every operation among Open, SetFlow, GetFlow, SetGas, TurnOn,  *)
(* TurnOff, after any history: if it fails, GetLastError called right      *)
(* after it returns the fixed message of that failure (never the generic   *)
(* message, never "No error."); if it succeeds, GetLastError returns       *)
(* "No error.".                                                            *)
(***************************************************************************)
C5_LastErrorMessage ==
    (last.op \in StatusOps /\ MsgOf(last) # "") =>
        IF last.ret # 0
        THEN /\ MsgOf(last) = MessageOf(FailureOf(last))
             /\ MsgOf(last) # "Unknown error occurred."
             /\ MsgOf(last) # "No error."
        ELSE MsgOf(last) = "No error."

\* RRG_GetFlow failed on the transport read and GetLastError was asked.
C5_Witness ==
    /\ last.op = "RRG_GetFlow"
    /\ last.ret = RRG_ERR
    /\ Len(last.calls) = 1
    /\ last.calls[1].rc = MODBUS_ERR
    /\ last.msg.rrg = "Error: Failed to read a MODBUS register."

(***************************************************************************)
(* C6.  As claimed: the last-error state is overwritten by every operation *)
(* of the public surface, Close included, so that after a Close it is "no  *)
(* error".                                                                 *)
(***************************************************************************)
C6_CloseResetsLastError ==
    last.op \in CloseOps => ErrOf(last) = 0

(***************************************************************************)
(* C6, amended.  The last-error state is overwritten by every operation    *)
(* that returns a status (Open, SetFlow, GetFlow, SetGas, TurnOn, TurnOff) *)
(* and then holds that operation's outcome; Close and GetLastError leave   *)
(* it as it was, so after a Close it still holds the outcome of the most   *)
(* recent status-returning operation.                                      *)
(***************************************************************************)
C6_LastErrorStep ==
    /\ last'.op \in RrgStatusOps => RRG_GlobalError' = OutcomeCode(last')
    /\ last'.op \in RelayStatusOps => RELAY_GlobalError' = OutcomeCode(last')
    /\ last'.op \notin RrgStatusOps => RRG_GlobalError' = RRG_GlobalError
    /\ last'.op \notin RelayStatusOps => RELAY_GlobalError' = RELAY_GlobalError

C6_LastErrorOverwrittenByStatusOps == [][C6_LastErrorStep]_vars

\* A Close that released a session while last-error holds an earlier failure.
C6_Witness ==
    /\ last.op = "RRG_Close"
    /\ Len(last.calls) = 2
    /\ RRG_GlobalError = ERROR_RRG_FAILED_WRITE_REGISTER


(***************************************************************************)
(* C7.  Round-trip law of the flow codec: for every setpoint s >= 0 whose  *)
(* milli-SCCM value fits in 32 bits, encoding s as SetFlow does and        *)
(* decoding the two words as GetFlow does reproduces s within 0.001.       *)
(* Checked under CodecSpec.                                                *)
(***************************************************************************)
C7_RoundTripWithin001 ==
    codec.pc = "decoded" => Within001(codec.flow, codec.s)

(***************************************************************************)
(* C8.  As claimed: against a transport that stores every written holding  *)
(* register at its address and returns stored values on reads, a           *)
(* successful SetFlow(handle, s) immediately followed by GetFlow(handle)   *)
(* returns the value s just written.                                       *)
(***************************************************************************)
SetFlowThenGetFlow ==
    /\ prev.op = "RRG_SetFlow"
    /\ prev.ret = RRG_OK
    /\ last.op = "RRG_GetFlow"
    /\ last.ret = RRG_OK
    /\ last.args.handle = prev.args.handle

C8_GetFlowReturnsSetpoint ==
    SetFlowThenGetFlow => FloatEq(flow, prev.args.setpoint)

(***************************************************************************)
(* C8, amended.  Against such a transport, a successful SetFlow(handle, s) *)
(* leaves the two words of trunc(s * 1000) in registers 2053 and 2054 and  *)
(* leaves registers 2103 and 2104 alone; the GetFlow that immediately      *)
(* follows returns the value decoded from registers 2103 and 2104, the     *)
(* device's flow reading, and not s.                                       *)
(***************************************************************************)
C8_GetFlowReturnsFlowReading ==
    SetFlowThenGetFlow =>
        LET value == SetpointToValue(prev.args.setpoint)
        IN /\ rrgRegs[MODBUS_REGISTER_SETPOINT] = (value \div 65536) % 65536
           /\ rrgRegs[MODBUS_REGISTER_SETPOINT + 1] = value % 65536
           /\ rrgRegs[MODBUS_REGISTER_FLOW] = FlowReading[1]
           /\ rrgRegs[MODBUS_REGISTER_FLOW + 1] = FlowReading[2]
           /\ Len(last.calls) = 1
           /\ last.calls[1].fn = "modbus_read_registers"
           /\ last.calls[1].addr = 2103
           /\ FloatEq(flow, DecodeFlow(FlowReading[1], FlowReading[2]))

\* SetFlow(70.0) succeeded, GetFlow succeeded right after it, and the value
\* stored for the caller is the flow reading 66.0.
C8_Witness ==
    /\ SetFlowThenGetFlow
    /\ FloatEq(prev.args.setpoint, [m |-> 70, e |-> 0])
    /\ FloatEq(flow, [m |-> 66, e |-> 0])

(***************************************************************************)
(* C9.  SetFlow issues its two single-register writes in the order high    *)
(* word to register 2053, then low word to register 2054.  If the first    *)
(* write fails, SetFlow returns FailedWriteRegister and the second write   *)
(* is never issued; if the second write fails, SetFlow returns             *)
(* FailedWriteRegister and makes no compensating write, so register 2053   *)
(* keeps the new high word while 2054 keeps its previous value.            *)
(***************************************************************************)
C9_SetFlowStep ==
    (last'.op = "RRG_SetFlow" /\ last'.msg = NoMsg /\ last'.calls # <<>>) =>
        LET calls == last'.calls
            value == SetpointToValue(last'.args.setpoint)
        IN /\ calls[1].fn = "modbus_write_register"
           /\ calls[1].addr = 2053
           /\ calls[1].val = (value \div 65536) % 65536
           /\ IF IsFailed(calls[1])
              THEN /\ Len(calls) = 1
                   /\ last'.ret = RRG_ERR
                   /\ RRG_GlobalError' = ERROR_RRG_FAILED_WRITE_REGISTER
                   /\ rrgRegs' = rrgRegs
              ELSE /\ Len(calls) = 2
                   /\ calls[2].fn = "modbus_write_register"
                   /\ calls[2].addr = 2054
                   /\ calls[2].val = value % 65536
                   /\ rrgRegs'[2053] = calls[1].val
                   /\ IF IsFailed(calls[2])
                      THEN /\ last'.ret = RRG_ERR
                           /\ RRG_GlobalError' = ERROR_RRG_FAILED_WRITE_REGISTER
                           /\ rrgRegs'[2054] = rrgRegs[2054]
                      ELSE /\ last'.ret = RRG_OK
                           /\ rrgRegs'[2054] = calls[2].val

C9_SetFlowWriteOrder == [][C9_SetFlowStep]_vars

\* SetFlow(70.0) whose second write failed: 2053 holds the new high word 1,
\* 2054 still holds the low word 1500 of the earlier setpoint.
C9_Witness ==
    /\ last.op = "RRG_SetFlow"
    /\ last.ret = RRG_ERR
    /\ Len(last.calls) = 2
    /\ last.calls[1].rc = 0
    /\ last.calls[2].rc = MODBUS_ERR
    /\ rrgRegs[2053] = 1
    /\ rrgRegs[2054] = 1500

(***************************************************************************)
(* C10.  On an open relay handle with a transport that accepts writes,     *)
(* TurnOn followed by TurnOff produces exactly two transport writes, both  *)
(* single-register writes to register 512, with value 1 first and value 0  *)
(* second, and neither operation issues a register read.                   *)
(***************************************************************************)
TurnOnThenTurnOff ==
    /\ prev.op = "RELAY_TurnOn"
    /\ prev.ret = RELAY_OK
    /\ last.op = "RELAY_TurnOff"
    /\ last.ret = RELAY_OK
    /\ last.args.handle = prev.args.handle

C10_TurnOnTurnOffWrites ==
    TurnOnThenTurnOff =>
        LET wire == prev.calls \o last.calls
        IN /\ Len(wire) = 2
           /\ \A i \in 1 .. 2 :
                 /\ wire[i].fn = "modbus_write_register"
                 /\ wire[i].addr = 512
                 /\ wire[i].ctx = relayHandle[last.args.handle]
                 /\ ~IsFailed(wire[i])
           /\ wire[1].val = 1
           /\ wire[2].val = 0

\* TurnOn then TurnOff, both acknowledged, on a connected session.
C10_Witness ==
    /\ TurnOnThenTurnOff
    /\ ctxState[relayHandle[1]] = "connected"
    /\ Len(prev.calls) = 1
    /\ Len(last.calls) = 1

RegisterOps == {"RRG_SetFlow", "RRG_GetFlow", "RRG_SetGas", "RELAY_TurnOn", "RELAY_TurnOff"}

\* The handle objects of the driver that call r belongs to.
HandlesOf(r) == IF r.op \in RrgOps THEN rrgHandle ELSE relayHandle

\* Call r was given a null handle or a handle without a session.
SessionAbsent(r) == CtxOf(HandlesOf(r), r.args.handle) = NULL

C12_InvalidArgumentRejected ==
    (/\ last.op \in RegisterOps
     /\ SessionAbsent(last) \/ (last.op = "RRG_GetFlow" /\ last.args.ptr = NULL)) =>
        /\ last.ret = -1
        /\ ErrOf(last) = CodeOf(last, "InvalidParameter")
        /\ last.calls = <<>>
        /\ MsgOf(last) \in {"", MessageOf("InvalidParameter")}

\* GetFlow on a connected session with a null output location, and
\* GetLastError asked right after it.
C12_Witness ==
    /\ last.op = "RRG_GetFlow"
    /\ last.args.handle = 1
    /\ rrgHandle[1] # NULL
    /\ ctxState[rrgHandle[1]] = "connected"
    /\ last.args.ptr = NULL
    /\ last.ret = RRG_ERR
    /\ last.msg.rrg = "Error: Invalid parameter provided to function."

(***************************************************************************)
(* C13.  As claimed: the core treats any negative or sentinel return value *)
(* of a transport primitive as a failure, so an operation never reports    *)
(* success (OK returned, last-error "no error") when a transport primitive *)
(* it called returned a negative value.  Checked under SentinelSpec.       *)
(***************************************************************************)
ReturnedNegative(c) == c.rc < 0

C13_NegativeReturnIsFailure ==
    (last.op \in StatusOps /\ SelectSeq(last.calls, ReturnedNegative) # <<>>) =>
        /\ last.ret # 0
        /\ ErrOf(last) # 0

(***************************************************************************)
(* C13, amended.  The core treats exactly the sentinel value MODBUS_ERR    *)
(* (-1) returned by a transport primitive, and a null session returned by  *)
(* create, as a failure, and maps it to the error code of the failed step; *)
(* every other return value, a negative value other than -1 included, is   *)
(* taken as success.  An operation that reached the transport reports      *)
(* failure if and only if one of its primitives returned the sentinel.     *)
(* Checked under SentinelSpec.                                             *)
(***************************************************************************)
C13_OnlySentinelIsFailure ==
    (last.op \in StatusOps /\ last.calls # <<>>) =>
        IF SelectSeq(last.calls, IsFailed) # <<>>
        THEN /\ last.ret = -1
             /\ FailureOf(last) # "none"
             /\ ErrOf(last) = CodeOf(last, FailureOf(last))
             /\ ErrOf(last) < 0
        ELSE /\ last.ret = 0
             /\ ErrOf(last) = 0

\* SetFlow whose first write returned -2 and whose second write succeeded:
\* it returned OK and last-error is "no error".
C13_Witness ==
    /\ last.op = "RRG_SetFlow"
    /\ Len(last.calls) = 2
    /\ last.calls[1].rc = -2
    /\ last.calls[2].rc = 0
    /\ last.ret = RRG_OK
    /\ RRG_GlobalError = RRG_OK

(***************************************************************************)
(* C14.  Close called with a null handle or with a handle whose session    *)
(* field is null is a no-op: it makes no disconnect and no release (no     *)
(* transport call at all), and it changes neither the handles nor the      *)
(* sessions nor the last-error state.                                      *)
(***************************************************************************)
\* The step is a call of Close (GetLastError is the one action that leaves a
\* message on the record of the most recent call).
IsCloseStep == last'.op \in CloseOps /\ last'.msg = NoMsg

\* handle->modbus_ctx as it is when the call of the step is made.
SessionAtCall == CtxOf(IF last'.op \in RrgOps THEN rrgHandle ELSE relayHandle,
                       last'.args.handle)

C14_CloseStep ==
    (IsCloseStep /\ SessionAtCall = NULL) =>
        /\ last'.calls = <<>>
        /\ rrgHandle' = rrgHandle
        /\ relayHandle' = relayHandle
        /\ ctxState' = ctxState
        /\ RRG_GlobalError' = RRG_GlobalError
        /\ RELAY_GlobalError' = RELAY_GlobalError

C14_CloseWithoutSessionIsNoOp == [][C14_CloseStep]_vars

\* Close of a handle that never got a session, after a failed Open: no
\* transport call, and last-error still holds the failure of the Open.
C14_Witness ==
    /\ last.op = "RRG_Close"
    /\ last.args.handle = 1
    /\ rrgHandle[1] = NULL
    /\ last.calls = <<>>
    /\ RRG_GlobalError = ERROR_RRG_FAILED_CONNECT

(***************************************************************************)
(* C15.  Close on a handle with a session disconnects and then releases    *)
(* that session, and leaves the handle's session field as it was (it is    *)
(* not set to null).  There is no guard: a Close on a handle whose session *)
(* was released already disconnects and releases that same session again.  *)
(***************************************************************************)
C15_CloseStep ==
    (IsCloseStep /\ SessionAtCall # NULL) =>
        LET ctx == SessionAtCall
        IN /\ Len(last'.calls) = 2
           /\ last'.calls[1].fn = "modbus_close"
           /\ last'.calls[1].ctx = ctx
           /\ last'.calls[2].fn = "modbus_free"
           /\ last'.calls[2].ctx = ctx
           /\ rrgHandle' = rrgHandle
           /\ relayHandle' = relayHandle
           /\ ctxState'[ctx] = IF ctxState[ctx] \in {"freed", "misused"}
                               THEN "misused" ELSE "freed"

C15_CloseIsNotIdempotent == [][C15_CloseStep]_vars

\* A Close of a handle whose session was released before: the handle still
\* refers to the session, and this Close disconnected and released it again.
C15_Witness ==
    /\ last.op = "RELAY_Close"
    /\ last.args.handle = 1
    /\ relayHandle[1] # NULL
    /\ Len(last.calls) = 2
    /\ last.calls[2].fn = "modbus_free"
    /\ last.calls[2].ctx = relayHandle[1]
    /\ ctxState[relayHandle[1]] = "misused"

(***************************************************************************)
(* C16.  With two threads working on different handles of the same driver  *)
(* and no external serialization, GetLastError called by a thread right    *)
(* after its own call returns the outcome of the call that assigned the    *)
(* process-wide last-error variable most recently, whichever thread made   *)
(* it.  So there is an interleaving in which thread A's call fails, thread *)
(* B's call succeeds, and A's GetLastError returns "No error." instead of  *)
(* the message of A's failure (the witness).  Checked under ThreadSpec.    *)
(***************************************************************************)
\* The message of the outcome of call r.
OutcomeMessage(r) == IF r.ret = 0 THEN "No error." ELSE MessageOf(FailureOf(r))

C16_GetLastErrorStep ==
    \A t \in Threads :
        (thread[t].pc = "returned" /\ thread'[t].pc = "asked") =>
            thread'[t].msg = OutcomeMessage(last)

C16_LastErrorIsProcessWide == [][C16_GetLastErrorStep]_vars

\* Thread 1's call failed, thread 2's call on the other handle succeeded
\* after it, and thread 1's GetLastError then returned "No error.".
C16_Witness ==
    /\ thread # NoThreads
    /\ thread[1].pc = "asked"
    /\ thread[1].ret = -1
    /\ thread[1].err = ERROR_RRG_FAILED_WRITE_REGISTER
    /\ thread[1].msg = "No error."
    /\ thread[2].pc = "returned"
    /\ thread[2].ret = 0
    /\ last.args.handle = HandleOf(2)

(***************************************************************************)
(* C17.  As claimed: _check_ptrs, given a first pointer and further        *)
(* (pointer, name) pairs ended by NULL, returns 0 if all the given         *)
(* pointers are valid and -1 otherwise, that is, -1 whenever any pointer   *)
(* of the argument list, at any position, is NULL.  Checked under          *)
(* CheckSpec.                                                              *)
(***************************************************************************)
C17_CheckPtrsDetectsEveryNull ==
    check.pc = "done" =>
        LET anyNull == \/ check.first_ptr = NULL
                       \/ \E i \in 1 .. Len(check.rest) : check.rest[i] = NULL
        IN check.ret = IF anyNull THEN -1 ELSE 0

(***************************************************************************)
(* C18.  GetLastError is a pure function of the current last-error state.  *)
(* A call changes neither the last-error variables nor any handle nor the  *)
(* transport (sessions, registers); asked again with no operation in       *)
(* between it returns the same message (the second call is a step that     *)
(* changes nothing); for a code the driver recognizes the message is not   *)
(* the generic one and differs from the message of every other recognized  *)
(* code; for any other code it is "Unknown error occurred.".  Checked      *)
(* under LastErrorSpec.                                                    *)
(***************************************************************************)
C18_GetLastErrorStep ==
    last'.msg # NoMsg =>
        LET code == IF driver = "rrg" THEN RRG_GlobalError ELSE RELAY_GlobalError
            msg == IF driver = "rrg" THEN last'.msg.rrg ELSE last'.msg.relay
            known == IF driver = "rrg" THEN RrgCodes ELSE RelayCodes
        IN /\ UNCHANGED <<RRG_GlobalError, RELAY_GlobalError, rrgHandle, relayHandle,
                          ctxState, rrgRegs, relayRegs, flow>>
           /\ last' = [last EXCEPT !.msg = last'.msg]
           /\ last.msg # NoMsg => last'.msg = last.msg
           /\ IF code \in known
              THEN /\ msg # "Unknown error occurred."
                   /\ \A other \in known \ {code} :
                         msg # (IF driver = "rrg" THEN RRG_GetLastError(other)
                                ELSE RELAY_GetLastError(other))
              ELSE msg = "Unknown error occurred."

C18_GetLastErrorIsPure == [][C18_GetLastErrorStep]_vars

\* The relay's last-error variable holds -1005, a code only the flow
\* regulator's driver knows; RELAY_GetLastError returned the generic message
\* and the open relay handle and its session are as they were.
C18_Witness ==
    /\ driver \in {"relay", "both"}
    /\ RELAY_GlobalError = ERROR_RRG_FAILED_READ_REGISTER
    /\ last.msg.relay = "Unknown error occurred."
    /\ relayHandle[1] # NULL
    /\ ctxState[relayHandle[1]] = "connected"

(***************************************************************************)
(* C19.  GetFlow on a handle that holds a session, with an output          *)
(* location, makes exactly one transport call: a read of two consecutive   *)
(* holding registers starting at register 2103.  When the read succeeds    *)
(* the output holds ((high << 16) | low) / 1000 with high the word at 2103 *)
(* and low the word at 2104, last-error is "no error" and OK is returned;  *)
(* when the read fails GetFlow returns the error value with last-error     *)
(* FailedReadRegister.                                                     *)
(***************************************************************************)
C19_GetFlowReadsFlowRegisters ==
    (/\ last.op = "RRG_GetFlow"
     /\ ~SessionAbsent(last)
     /\ last.args.ptr # NULL) =>
        /\ Len(last.calls) = 1
        /\ last.calls[1].fn = "modbus_read_registers"
        /\ last.calls[1].ctx = rrgHandle[last.args.handle]
        /\ last.calls[1].addr = 2103
        /\ last.calls[1].val = 2
        /\ IF IsFailed(last.calls[1])
           THEN /\ last.ret = RRG_ERR
                /\ RRG_GlobalError = ERROR_RRG_FAILED_READ_REGISTER
           ELSE /\ last.ret = RRG_OK
                /\ RRG_GlobalError = RRG_OK
                /\ flow = IntDiv1000ToFloat(rrgRegs[2103] * 65536 + rrgRegs[2104])

\* GetFlow succeeded on a connected session whose registers 2103/2104 hold
\* the words 1 and 464: the output is 66.0 (66000 / 1000).
C19_Witness ==
    /\ last.op = "RRG_GetFlow"
    /\ last.ret = RRG_OK
    /\ Len(last.calls) = 1
    /\ ctxState[last.calls[1].ctx] = "connected"
    /\ rrgRegs[2103] = 1
    /\ rrgRegs[2104] = 464
    /\ FloatEq(flow, [m |-> 66, e |-> 0])

(***************************************************************************)
(* C20.  As claimed: no-leak invariant over any sequence of Open and Close *)
(* calls.  Every transport session that has been created and not yet       *)
(* released is referenced by the session field of some handle, also when   *)
(* Open succeeds on a handle that already owns an open session.            *)
(***************************************************************************)
C20_NoLeak ==
    \A c \in Sessions :
        ctxState[c] \in {"created", "connected", "closed"} =>
            \/ \E h \in DOMAIN rrgHandle : rrgHandle[h] = c
            \/ \E h \in DOMAIN relayHandle : relayHandle[h] = c

(***************************************************************************)
(* C21.  As claimed: no operation issues a transport call on a session     *)
(* that has already been released.  A register operation (SetFlow,         *)
(* GetFlow, SetGas, TurnOn, TurnOff) called on a handle whose session was  *)
(* released by Close is rejected with InvalidParameter and makes no        *)
(* transport call.                                                         *)
(***************************************************************************)
\* The step is a call of a register operation.
IsRegisterStep == last'.op \in RegisterOps /\ last'.msg = NoMsg

C21_RegisterStep ==
    (/\ IsRegisterStep
     /\ SessionAtCall # NULL
     /\ ctxState[SessionAtCall] \in {"freed", "misused"}
     /\ last'.op = "RRG_GetFlow" => last'.args.ptr # NULL) =>
        /\ last'.calls = <<>>
        /\ last'.ret = -1
        /\ (last'.op \in RrgOps => RRG_GlobalError' = ERROR_RRG_INVALID_PARAMETER)
        /\ (last'.op \notin RrgOps => RELAY_GlobalError' = ERROR_RELAY_INVALID_PARAMETER)
        /\ ctxState' = ctxState

C21_NoOperationOnReleasedSession == [][C21_RegisterStep]_vars

(***************************************************************************)
(* C22.  A failing Open never modifies the handle: whatever the failure    *)
(* (null argument, create, set slave, set timeout, connect), the session   *)
(* field of every handle is after the call what it was before it.  A       *)
(* handle without a session stays without one, and a handle that owned an  *)
(* open session still owns it.                                             *)
(***************************************************************************)
\* The step is a call of Open.
IsOpenStep == last'.op \in InitOps /\ last'.msg = NoMsg

C22_OpenStep ==
    (IsOpenStep /\ last'.ret # 0) =>
        /\ rrgHandle' = rrgHandle
        /\ relayHandle' = relayHandle

C22_FailedOpenKeepsHandle == [][C22_OpenStep]_vars

\* Open failed at connect on a handle that owns a connected session: the
\* handle still refers to that session, not to the one just released.
C22_Witness ==
    /\ last.op = "RRG_Init"
    /\ last.args.handle = 1
    /\ last.ret = RRG_ERR
    /\ RRG_GlobalError = ERROR_RRG_FAILED_CONNECT
    /\ Len(last.calls) = 5
    /\ rrgHandle[1] # NULL
    /\ rrgHandle[1] # last.calls[1].ctx
    /\ ctxState[rrgHandle[1]] = "connected"
    /\ ctxState[last.calls[1].ctx] = "freed"

(***************************************************************************)
(* C23.  In every state reachable through the public operations each       *)
(* driver's last-error variable holds a member of that driver's closed     *)
(* code set: OK and -1001..-1007 for the flow regulator, OK and            *)
(* -6001..-6006 for the relay (which has no read-register code).  So       *)
(* GetLastError never returns the generic "Unknown error occurred.".       *)
(***************************************************************************)
C23_LastErrorInCodeSet ==
    /\ RRG_GlobalError \in {0} \cup (-1007 .. -1001)
    /\ RELAY_GlobalError \in {0} \cup (-6006 .. -6001)
    /\ RRG_GlobalError \in RrgCodes
    /\ RELAY_GlobalError \in RelayCodes
    /\ Cardinality(RrgCodes) = 8
    /\ Cardinality(RelayCodes) = 7
    /\ last.msg.rrg # "Unknown error occurred."
    /\ last.msg.relay # "Unknown error occurred."

\* A failed read of the flow registers, and GetLastError asked right after
\* it: the read-register code and its own message.
C23_Witness ==
    /\ last.op = "RRG_GetFlow"
    /\ Len(last.calls) = 1
    /\ RRG_GlobalError = ERROR_RRG_FAILED_READ_REGISTER
    /\ last.msg.rrg = "Error: Failed to read a MODBUS register."

(***************************************************************************)
(* C24.  Every operation that returns a status (Open, SetFlow, GetFlow,    *)
(* SetGas, TurnOn, TurnOff) returns either OK (0) or the generic error     *)
(* value -1, never one of the specific codes; and it returns OK if and     *)
(* only if the driver's last-error variable holds "no error" right after   *)
(* the call.                                                               *)
(***************************************************************************)
C24_ReturnValueAndLastError ==
    last.op \in StatusOps =>
        /\ last.ret \in {0, -1}
        /\ last.ret = 0 <=> ErrOf(last) = 0
        /\ last.ret = -1 <=> ErrOf(last) \in (RrgCodes \cup RelayCodes) \ {0}

\* SetFlow whose second write failed: -1 returned, the write-register code in
\* the last-error variable.
C24_Witness ==
    /\ last.op = "RRG_SetFlow"
    /\ Len(last.calls) = 2
    /\ last.calls[2].rc = MODBUS_ERR
    /\ last.ret = RRG_ERR
    /\ RRG_GlobalError = ERROR_RRG_FAILED_WRITE_REGISTER

(***************************************************************************)
(* C25.  The two drivers keep separate last-error variables: no call of a  *)
(* flow-regulator operation changes the relay's last-error variable, no    *)
(* call of a relay operation changes the flow regulator's, and             *)
(* GetLastError changes neither.  So after a failed relay operation        *)
(* followed by a flow operation the relay's variable still holds the       *)
(* relay's failure and RELAY_GetLastError still returns its message.       *)
(* Checked under LinkedSpec.                                               *)
(***************************************************************************)
C25_Step ==
    /\ (last'.msg = NoMsg /\ last'.op \in RrgOps) =>
           RELAY_GlobalError' = RELAY_GlobalError
    /\ (last'.msg = NoMsg /\ last'.op \in (StatusOps \cup CloseOps) \ RrgOps) =>
           RRG_GlobalError' = RRG_GlobalError
    /\ last'.msg # NoMsg =>
           /\ RRG_GlobalError' = RRG_GlobalError
           /\ RELAY_GlobalError' = RELAY_GlobalError
    /\ (prev'.op = "RELAY_TurnOn" /\ prev'.ret = -1 /\ last'.op \in RrgStatusOps) =>
           /\ RELAY_GlobalError' = CodeOf(prev', FailureOf(prev'))
           /\ last'.msg.relay \in {"", MessageOf(FailureOf(prev'))}

C25_SeparateLastErrors == [][C25_Step]_vars

\* TurnOn failed at its write, GetFlow succeeded next, and RELAY_GetLastError
\* asked after that still returns the message of the failed write.
C25_Witness ==
    /\ prev.op = "RELAY_TurnOn"
    /\ prev.ret = RELAY_ERR
    /\ Len(prev.calls) = 1
    /\ last.op = "RRG_GetFlow"
    /\ last.ret = RRG_OK
    /\ RRG_GlobalError = RRG_OK
    /\ RELAY_GlobalError = ERROR_RELAY_FAILED_WRITE_REGISTER
    /\ last.msg.relay = "Error: Failed to write a MODBUS register."

(***************************************************************************)
(* C26.  Two threads call SetFlow on the same handle without a lock.  Each *)
(* call makes two separate register writes, and a write changes only its   *)
(* own register: the high-word write stores the caller's high word at 2053 *)
(* and leaves 2054 alone, the low-word write stores the caller's low word  *)
(* at 2054 and leaves 2053 alone, whatever the other thread is doing.  So  *)
(* the writes of the two calls can interleave and leave the pair holding   *)
(* the high word of one call and the low word of the other, a setpoint     *)
(* neither caller asked for, while both calls return OK (the witness).     *)
(* Checked under RaceSpec.                                                 *)
(***************************************************************************)
C26_WriteStep ==
    \A t \in Threads :
        LET u == CHOOSE o \in Threads : o # t
        IN /\ (thread[t].pc = "write_high" /\ thread'[t].pc = "write_low") =>
                  /\ rrgRegs' = [rrgRegs EXCEPT ![2053] = thread[t].reg_high]
                  /\ thread'[u] = thread[u]
           /\ (thread[t].pc = "write_low" /\ thread'[t].pc = "returned"
                                          /\ thread'[t].ret = 0) =>
                  /\ rrgRegs' = [rrgRegs EXCEPT ![2054] = thread[t].reg_low]
                  /\ thread'[u] = thread[u]
           /\ (thread[t].pc \in {"write_high", "write_low"}
                 /\ thread'[t].pc = "returned" /\ thread'[t].ret = -1) =>
                  /\ rrgRegs' = rrgRegs
                  /\ thread'[u] = thread[u]
           /\ thread[t].pc # "idle" => thread'[t].setpoint = thread[t].setpoint
           /\ thread'[t].pc \in {"write_high", "write_low"} =>
                  thread'[t].reg_high * 65536 + thread'[t].reg_low =
                      1000 * thread'[t].setpoint.m

C26_SetFlowWritesAreSeparate == [][C26_WriteStep]_vars

\* Thread 1 asked for 70.0 SCCM (words 1, 4464), thread 2 for 140.0 SCCM
\* (words 2, 8928); both calls returned OK and the register pair holds
\* thread 1's high word with thread 2's low word: 74.464 SCCM.
C26_Witness ==
    /\ thread[1].pc = "returned"
    /\ thread[2].pc = "returned"
    /\ thread[1].ret = RRG_OK
    /\ thread[2].ret = RRG_OK
    /\ thread[1].setpoint = [m |-> 70, e |-> 0]
    /\ thread[2].setpoint = [m |-> 140, e |-> 0]
    /\ rrgRegs[2053] = 1
    /\ rrgRegs[2054] = 8928
    /\ RRG_GlobalError = RRG_OK

(***************************************************************************)
(* C27.  The flow codec treats the register pair as one signed 32-bit      *)
(* integer, high word first.  For every value v that SetFlow computes,     *)
(* negative values included, it writes (v >> 16) mod 2^16 to register 2053 *)
(* and v mod 2^16 to register 2054; GetFlow takes a pair whose high word   *)
(* is >= 0x8000 as a negative milli-SCCM value, so that the pair SetFlow    *)
(* wrote is reassembled to v again and GetFlow delivers v / 1000.  Checked *)
(* under WordSpec.                                                         *)
(***************************************************************************)
\* The signed 32-bit integer that the words d0 (high) and d1 (low) spell.
SignedOfWords(d0, d1) ==
    IF d0 >= 32768 THEN (d0 - 65536) * 65536 + d1 ELSE d0 * 65536 + d1

C27_SignedBigEndianCodec ==
    /\ codec.pc \in {"encoded", "decoded"} =>
           LET v == codec.value
               writes == RRG_SetFlow(1, 1, codec.s, 0, 0).calls
           IN /\ codec.high = (v \div 65536) % 65536
              /\ codec.low = v % 65536
              /\ writes[1].addr = 2053 /\ writes[1].val = codec.high
              /\ writes[2].addr = 2054 /\ writes[2].val = codec.low
              /\ SignedOfWords(codec.high, codec.low) = v
              /\ codec.high >= 32768 <=> v < 0
    /\ codec.pc = "decoded" =>
           /\ codec.flow = IntDiv1000ToFloat(codec.value)
           /\ codec.flow.m < 0 <=> codec.value < 0
    /\ codec.pc = "read" =>
           /\ codec.flow = IntDiv1000ToFloat(SignedOfWords(codec.high, codec.low))
           /\ codec.flow.m < 0 <=> codec.high >= 32768

\* SetFlow(-70.0) computed -70000 and wrote the words 65534 and 61072;
\* GetFlow read them back as -70.0.
C27_Witness ==
    /\ codec.pc = "decoded"
    /\ codec.s = [m |-> -70, e |-> 0]
    /\ codec.value = -70000
    /\ codec.high = 65534
    /\ codec.low = 61072
    /\ FloatEq(codec.flow, [m |-> -70, e |-> 0])

(***************************************************************************)
(* C28.  As claimed: SetFlow converts the setpoint to milli-SCCM by        *)
(* truncation toward zero.  With the setpoint written as m thousandths     *)
(* plus a remainder of less than one thousandth, the integer that is split *)
(* and written is m.  Checked under WordSpec.                              *)
(***************************************************************************)
\* The exact product s * 1000 truncated toward zero (|s.m| < 2^24).
TruncatedMilli(s) ==
    IF s.e >= -3 THEN s.m * 125 * Pow2(s.e + 3)
    ELSE IF -s.e - 3 >= 31 THEN 0
    ELSE Sgn(s.m) * ((Abs(s.m) * 125) \div Pow2(-s.e - 3))

IsGetFlowStep == last'.op = "RRG_GetFlow" /\ last'.msg = NoMsg

C29_GetFlowStep ==
    IsGetFlowStep =>
        /\ last'.ret # 0 => flow' = flow
        /\ flow' # flow =>
               /\ last'.ret = 0
               /\ last'.args.ptr # NULL
               /\ Len(last'.calls) = 1
               /\ last'.calls[1].fn = "modbus_read_registers"
               /\ last'.calls[1].val = 2
               /\ last'.calls[1].rc # MODBUS_ERR

C29_FailedGetFlowKeepsOutput == [][C29_GetFlowStep]_vars

\* The read failed on a connected session: the caller's float still holds
\* the -1.0 it was initialised with.
C29_Witness ==
    /\ last.op = "RRG_GetFlow"
    /\ last.args.ptr # NULL
    /\ last.ret = RRG_ERR
    /\ Len(last.calls) = 1
    /\ last.calls[1].rc = MODBUS_ERR
    /\ RRG_GlobalError = ERROR_RRG_FAILED_READ_REGISTER
    /\ flow = [m |-> -1, e |-> 0]

(***************************************************************************)
(* C30.  Open sets the response timeout with a seconds part of 0 and a     *)
(* microseconds part of timeout_ms * 1000, for every configured            *)
(* timeout_ms.  Whole seconds are never carried into the seconds part      *)
(* (1500 ms gives 0 s and 1,500,000 us), and the product is computed in    *)
(* 32-bit signed arithmetic: it is timeout_ms * 1000 when that fits an     *)
(* int, and its low 32 bits otherwise (4,294,968 ms gives 704 us).         *)
(* Checked under TimeoutSpec.                                              *)
(***************************************************************************)
IsSetTimeout(c) == c.fn = "modbus_set_response_timeout"

C30_TimeoutArguments ==
    last.op \in InitOps =>
        \A i \in 1 .. Len(last.calls) :
            IsSetTimeout(last.calls[i]) =>
                LET c == last.calls[i]
                    timeout_ms == Configs[last.args.config].timeout
                IN /\ c.addr = 0
                   /\ timeout_ms <= 2147483 => c.val = timeout_ms * 1000
                   /\ c.val % 65536 = ((timeout_ms % 65536) * 1000) % 65536
                   /\ timeout_ms = 1500 => c.val = 1500000
                   /\ timeout_ms = 4294968 => c.val = 704

\* Open with a timeout of 1500 ms succeeded: the timeout was set to 0 s and
\* 1,500,000 us.
C30_Witness ==
    /\ last.op = "RRG_Init"
    /\ last.ret = RRG_OK
    /\ Configs[last.args.config].timeout = 1500
    /\ Len(last.calls) = 4
    /\ last.calls[3].fn = "modbus_set_response_timeout"
    /\ last.calls[3].addr = 0
    /\ last.calls[3].val = 1500000

=============================================================================
